---- MODULE Spec2Model ----
(***************************************************************************)
(* Model of the NGSI-LD synchronisation layer of Lego-Dashboard:           *)
(*   - NgsiLdOperations (entityExists, createEntity, updateEntityAttrs,    *)
(*     upsertEntity) talking to a context broker,                          *)
(*   - resyncEntityEndpoint, which pushes one local record to the broker   *)
(*     and records the outcome on the record,                              *)
(*   - importEntitiesEndpoint and discoverEntitiesEndpoint,                *)
(*   - createNgsiClient and the request headers of every operation,        *)
(*   - the type normalisation of import and resync.                        *)
(* Specifications: Spec (two resyncs), ImportSpec (two imports),           *)
(* DiscoverSpec (one discovery), OpsSpec (a direct caller of               *)
(* NgsiLdOperations), NormalizeSpec (type normalisation), SystemSpec       *)
(* (one resync, one import and one discovery side by side), ClientSpec     *)
(* (createNgsiClient on one configuration), ApiSpec (one request to one    *)
(* handler of the HTTP surface), TemplateSpec (popup and card title        *)
(* rendering), UiSpec (handleImport of the admin component) and HookSpec   *)
(* (the useNgsiData hook with overlapping fetches).                        *)
(* Every action is the piece of a handler that runs between two awaits:    *)
(* the awaited call (a broker request or a local-store call) together with *)
(* the synchronous code that follows it.  Node interleaves concurrent      *)
(* requests only at awaits.                                                *)
(*                                                                         *)
(* JS values: an object is a function from keys to values; an optional     *)
(* value is a sequence of length 0 (null/undefined) or 1; a string that    *)
(* the code splits on '/' is the sequence of its '/'-separated segments.   *)
(***************************************************************************)
EXTENDS Naturals, Sequences, FiniteSets, TLC

VARIABLES
  broker,      \* entities the context broker holds, in creation order
  entities,    \* local collection 'ngsi-entities' (doc id = position)
  dataModels,  \* local collection 'ngsi-data-models' (doc id = position)
  sources,     \* local collection 'ngsi-sources': source id -> record
  clock,       \* Date.now(), advanced by every write that stamps a time
  faults,      \* broker / store failures injected so far
  rs,          \* resyncEntityEndpoint invocations
  imp,         \* importEntitiesEndpoint invocations
  hookLog,     \* broker pushes made by the ngsi-entities afterChange hook
  dsc,         \* discoverEntitiesEndpoint invocation
  ops,         \* a caller of NgsiLdOperations: its client and the calls it made
  nz,          \* one type string and what import and resync normalise it to
  cl,          \* createNgsiClient applied to one configuration
  ep,          \* one invocation of fetch-details, fetch-entity, the proxy or the entities API
  tpl,         \* one template, one context and what the popup and the card title render
  ui,          \* the SyncEntities admin component during handleImport
  hk           \* the useNgsiData hook: its React state and the fetches in flight

vars == <<broker, entities, dataModels, sources, clock, faults, rs, imp, hookLog, dsc, ops, nz,
          cl, ep, tpl, ui, hk>>

----------------------------------------------------------------------------
(* Bounds *)

MaxFaults == 1

MaxBatch == 2

MaxRows == 2

MaxScopeFailures == 2

----------------------------------------------------------------------------
(* JS helpers *)

Null == <<>>
Some(x) == <<x>>

\* a '/'-separated string as its segments; "a/b".split('/') = <<"a","b">>
Weather == <<"Weather">>
WeatherUrl == <<"https:", "", "x", "y", "Weather">>
Park == <<"Park">>
EmptyString == <<"">>
Undefined == <<>>

Falsy(s) == s = Undefined \/ s = EmptyString

\* s.includes('/')
IncludesSlash(s) == Len(s) > 1

\* s.split('/').pop() || s
LastSegmentOr_parent(s) == SubSeq(s, 1, Len(s) - 1)

LastSegmentOr(s) == IF s[Len(s)] # "" THEN <<s[Len(s)]>> ELSE s

\* { ...a, ...b }: the keys of b override those of a
Spread(a, b) == b @@ a

\* const { id, type, ...attrs } = entity
Without(obj, keys) == [k \in DOMAIN obj \ keys |-> obj[k]]

Is2xx(status) == status >= 200 /\ status < 300

\* obj[key], or `absent` when the object has no such key
Field(obj, key, absent) == IF key \in DOMAIN obj THEN obj[key] ELSE absent

EmptyObject == [k \in {} |-> ""]

----------------------------------------------------------------------------
(* The context broker (NGSI-LD v1 wire protocol, §6 of the spec).  A       *)
(* request is answered from the broker's entity list, or fails with a      *)
(* server error (500) or without any response (status 0: timeout, DNS,     *)
(* connection refused).                                                    *)

FaultStatuses == {500, 0}

BrokerHas(b, id) == \E i \in 1..Len(b) : b[i]["id"] = id

\* HEAD /ngsi-ld/v1/entities/{id}
BrokerHead(b, id) == IF BrokerHas(b, id) THEN 200 ELSE 404

\* POST /ngsi-ld/v1/entities: 201, or 409 when the id is taken
BrokerPostStatus(b, body) == IF BrokerHas(b, body["id"]) THEN 409 ELSE 201
BrokerPost(b, body) == IF BrokerHas(b, body["id"]) THEN b ELSE Append(b, body)

\* PATCH /ngsi-ld/v1/entities/{id}/attrs applying the attributes `applied`
BrokerPatch(b, id, attrs, applied) ==
  [i \in 1..Len(b) |->
     IF b[i]["id"] = id THEN Spread(b[i], Without(attrs, DOMAIN attrs \ applied)) ELSE b[i]]

\* 204 when every attribute was applied, 207 when only part of them, 404 when absent
BrokerPatchStatus(b, id, attrs, applied) ==
  IF ~BrokerHas(b, id) THEN 404
  ELSE IF applied = DOMAIN attrs THEN 204 ELSE 207

----------------------------------------------------------------------------
(* Errors.  axios rejects with an AxiosError (an Error) whose message is   *)
(* fixed by the status; the local store rejects with a plain Error.        *)

AxiosMessage(status) ==
  CASE status = 0   -> "timeout of 10000ms exceeded"
    [] status = 404 -> "Request failed with status code 404"
    [] status = 409 -> "Request failed with status code 409"
    [] OTHER        -> "Request failed with status code 500"

\* error.response?.data?.detail: the ProblemDetails body of a broker error answer
ProblemDetail(status) ==
  CASE status = 0   -> Null
    [] status = 404 -> Some("Entity not found")
    [] status = 409 -> Some("Entity already exists")
    [] OTHER        -> Some("Internal error")

\* error.response?.data?.title
ProblemTitle(status) ==
  CASE status = 0   -> Null
    [] status = 404 -> Some("Not Found")
    [] status = 409 -> Some("Already Exists")
    [] OTHER        -> Some("Internal Error")

AxiosError(status) ==
  [isAxiosError |-> TRUE, hasResponse |-> status # 0, status |-> status,
   message |-> AxiosMessage(status), detail |-> ProblemDetail(status),
   title |-> ProblemTitle(status)]

StoreError ==
  [isAxiosError |-> FALSE, hasResponse |-> FALSE, status |-> 0,
   message |-> "local store error", detail |-> Null, title |-> Null]

----------------------------------------------------------------------------
(* createNgsiClient *)

\* s.trim(), on the strings the model uses
Trim(s) ==
  CASE s = " "   -> ""
    [] s = " a " -> "a"
    [] s = "/p " -> "/p"
    [] OTHER     -> s

NoHeaders == [h \in {} |-> ""]

\* the default headers of the axios instance createNgsiClient returns
CreateNgsiClient_noTrim(config) ==
  LET service == Field(config, "service", "")
      servicePath == Field(config, "servicePath", "")
      authToken == Field(config, "authToken", Null)
  IN  (IF service # "" THEN [h \in {"Fiware-Service"} |-> service] ELSE NoHeaders)
      @@ (IF servicePath # "" THEN [h \in {"Fiware-ServicePath"} |-> servicePath] ELSE NoHeaders)
      @@ (IF authToken # Null /\ authToken # Some("")
          THEN [h \in {"X-Auth-Token"} |-> authToken[1]] ELSE NoHeaders)

CreateNgsiClient(config) ==
  LET service == Field(config, "service", "")
      servicePath == Field(config, "servicePath", "")
      authToken == Field(config, "authToken", Null)
  IN  (IF service # "" /\ Trim(service) # ""
       THEN [h \in {"Fiware-Service"} |-> Trim(service)] ELSE NoHeaders)
      @@ (IF servicePath # "" /\ Trim(servicePath) # ""
          THEN [h \in {"Fiware-ServicePath"} |-> Trim(servicePath)] ELSE NoHeaders)
      @@ (IF authToken # Null /\ authToken # Some("")
          THEN [h \in {"X-Auth-Token"} |-> authToken[1]] ELSE NoHeaders)

----------------------------------------------------------------------------
(* NgsiLdOperations *)

\* entityExists: "true", "false", or "throw" (the error is rethrown)
EntityExists_swallow(status) ==
  IF Is2xx(status) THEN "true" ELSE "false"

EntityExists(status) ==
  IF Is2xx(status) THEN "true"
  ELSE IF status = 404 THEN "false"
  ELSE "throw"

\* createEntity: the awaited POST resolves on 2xx and rejects otherwise
CreateEntity_ignore409(status) ==
  IF Is2xx(status) \/ status = 409 THEN "ok" ELSE "throw"

CreateEntity(status) == IF Is2xx(status) THEN "ok" ELSE "throw"

\* updateEntityAttrs: the awaited PATCH resolves on 2xx and rejects otherwise
UpdateEntityAttrs(status) == IF Is2xx(status) THEN "ok" ELSE "throw"

\* the body upsertEntity hands to updateEntityAttrs
UpdateBody_keepType(entity) == Without(entity, {"id"})

UpdateBody(entity) == Without(entity, {"id", "type"})

\* the body upsertEntity hands to createEntity
CreateBody(entity) == entity

Request(method, id, body, status) ==
  [method |-> method, id |-> id, body |-> body, status |-> status]

----------------------------------------------------------------------------
(* resyncEntityEndpoint *)

Procs == {"p1", "p2"}

E1 == "urn:x:1"
E2 == "urn:x:2"
E3 == "urn:x:3"

\* attributes of the local record: plain, two attributes, and a map with a key 'id'
AttrMaps ==
  { [temp |-> "v1"],
    [temp |-> "v1", hum |-> "v2"],
    [temp |-> "v1", id |-> E2] }

LocalRecord(entityId, type, attrs, source, dm, status) ==
  [entityId |-> entityId, type |-> type, attributes |-> attrs,
   service |-> "", servicePath |-> "/", source |-> source, dataModel |-> dm,
   syncStatus |-> status, lastSyncTime |-> 0, lastSyncError |-> Null,
   skipSync |-> FALSE]

\* if (entityType && entityType.includes('/')) entityType = entityType.split('/').pop() || entityType
ShortType(entityType) ==
  IF ~Falsy(entityType) /\ IncludesSlash(entityType) THEN LastSegmentOr(entityType) ELSE entityType

\* entity.type || dataModel?.model, then the short name
EntityType(doc, models) ==
  LET dm == IF doc.dataModel \in 1..Len(models) THEN models[doc.dataModel].model ELSE Undefined
      t  == IF ~Falsy(doc.type) THEN doc.type ELSE dm
  IN  ShortType(t)

\* { id: entity.entityId, type: entityType, ...entity.attributes }
EntityBody(doc, models) ==
  Spread([id |-> doc.entityId, type |-> EntityType(doc, models)], doc.attributes)

\* error instanceof Error ? error.message : ...  (every error thrown here is an Error)
ErrorMessage(err) == err.message

\* data of the payload.update after a successful upsert
SyncedUpdate_keepError(time) ==
  [syncStatus |-> "synced", lastSyncTime |-> time]

SyncedUpdate(time) ==
  [syncStatus |-> "synced", lastSyncTime |-> time, lastSyncError |-> Null]

\* data of the payload.update in the catch block
ErrorUpdate_dropAttributes(errorMessage, time) ==
  [syncStatus |-> "error", lastSyncTime |-> time, lastSyncError |-> Some(errorMessage),
   attributes |-> EmptyObject]

ErrorUpdate(errorMessage, time) ==
  [syncStatus |-> "error", lastSyncTime |-> time, lastSyncError |-> Some(errorMessage)]

\* payload.update({ collection, id, data }): the fields of data replace those of the document
StoreUpdate(docs, id, data) == [docs EXCEPT ![id] = Spread(@, data)]

\* context of both payload.update calls of resync
ResyncContext == [skipSync |-> TRUE]

\* the afterChange hook of 'ngsi-entities': pushes the document to the broker
\* unless the operation carries context.skipSync
AfterChange(log, data, context) ==
  IF context.skipSync THEN log ELSE Append(log, data.entityId)

IdleResync ==
  [pc |-> "idle", id |-> 0, body |-> Null, exists |-> "none", result |-> "none",
   err |-> Null, reqs |-> <<>>, wrote |-> "none", response |-> Null]

\* Response.json({ error }, { status })
JsonResponse_noStatus(status, error) == Some([status |-> 200, error |-> error])

JsonResponse(status, error) == Some([status |-> status, error |-> error])

\* entry of the handler up to the first broker request
ResyncFind(p) ==
  /\ rs[p].pc = "idle"
  /\ \E id \in 0..(Len(entities) + 1) :
       IF id = 0
       THEN \* !id
            /\ rs' = [rs EXCEPT ![p].pc = "done",
                                ![p].response = JsonResponse(400, Some("Entity ID is required"))]
            /\ UNCHANGED faults
       ELSE \/ \* findByID rejects
               /\ faults < MaxFaults
               /\ faults' = faults + 1
               /\ rs' = [rs EXCEPT ![p].pc = "catch", ![p].id = id, ![p].err = Some(StoreError)]
            \/ /\ id > Len(entities)
               /\ rs' = [rs EXCEPT ![p].pc = "done", ![p].id = id,
                                   ![p].response = JsonResponse(404, Some("Entity not found"))]
               /\ UNCHANGED faults
            \/ /\ id <= Len(entities)
               /\ UNCHANGED faults
               /\ IF ~sources[entities[id].source].hasBrokerUrl
                  THEN rs' = [rs EXCEPT ![p].pc = "done", ![p].id = id,
                                ![p].response =
                                   JsonResponse(400, Some("Source broker URL not configured"))]
                  ELSE rs' = [rs EXCEPT ![p].pc = "probe", ![p].id = id,
                                        ![p].body = Some(EntityBody(entities[id], dataModels))]
  /\ UNCHANGED <<broker, entities, dataModels, sources, clock, imp, hookLog, dsc, ops, nz, cl,
                 ep, tpl, ui, hk>>

\* upsertEntity: const exists = await this.entityExists(entity.id)
UpsertProbe(p) ==
  /\ rs[p].pc = "probe"
  /\ LET entity == rs[p].body[1]
     IN \E status \in {BrokerHead(broker, entity["id"])} \cup FaultStatuses :
          /\ status \in FaultStatuses => faults < MaxFaults
          /\ faults' = IF status \in FaultStatuses THEN faults + 1 ELSE faults
          /\ LET exists == EntityExists(status)
                 req == Request("HEAD", entity["id"], Null, status)
             IN rs' = [rs EXCEPT
                  ![p].reqs = Append(@, req),
                  ![p].exists = exists,
                  ![p].pc = CASE exists = "true" -> "update"
                              [] exists = "false" -> "create"
                              [] OTHER -> "catch",
                  ![p].err = IF exists = "throw" THEN Some(AxiosError(status)) ELSE @]
  /\ UNCHANGED <<broker, entities, dataModels, sources, clock, imp, hookLog, dsc, ops, nz, cl,
                 ep, tpl, ui, hk>>

\* upsertEntity, else branch: await this.createEntity(entity); return 'created'
UpsertCreate(p) ==
  /\ rs[p].pc = "create"
  /\ LET body == CreateBody(rs[p].body[1])
     IN \E status \in {BrokerPostStatus(broker, body)} \cup FaultStatuses :
          /\ status \in FaultStatuses => faults < MaxFaults
          /\ faults' = IF status \in FaultStatuses THEN faults + 1 ELSE faults
          /\ broker' = IF status \in FaultStatuses THEN broker ELSE BrokerPost(broker, body)
          /\ rs' = [rs EXCEPT
               ![p].reqs = Append(@, Request("POST", body["id"], Some(body), status)),
               ![p].result = IF CreateEntity(status) = "ok" THEN "created" ELSE @,
               ![p].pc = IF CreateEntity(status) = "ok" THEN "mark" ELSE "catch",
               ![p].err = IF CreateEntity(status) = "ok" THEN @ ELSE Some(AxiosError(status))]
  /\ UNCHANGED <<entities, dataModels, sources, clock, imp, hookLog, dsc, ops, nz, cl, ep, tpl,
                 ui, hk>>

\* upsertEntity, then branch: await this.updateEntityAttrs(entity.id, attrs); return 'updated'
UpsertUpdate(p) ==
  /\ rs[p].pc = "update"
  /\ LET entity == rs[p].body[1]
         attrs  == UpdateBody(entity)
     IN \/ \E applied \in SUBSET DOMAIN attrs :
             /\ applied # {} \/ DOMAIN attrs = {}
             /\ LET status == BrokerPatchStatus(broker, entity["id"], attrs, applied)
                IN /\ broker' = IF Is2xx(status)
                                THEN BrokerPatch(broker, entity["id"], attrs, applied)
                                ELSE broker
                   /\ rs' = [rs EXCEPT
                        ![p].reqs = Append(@, Request("PATCH", entity["id"], Some(attrs), status)),
                        ![p].result = IF UpdateEntityAttrs(status) = "ok" THEN "updated" ELSE @,
                        ![p].pc = IF UpdateEntityAttrs(status) = "ok" THEN "mark" ELSE "catch",
                        ![p].err = IF UpdateEntityAttrs(status) = "ok" THEN @
                                   ELSE Some(AxiosError(status))]
             /\ UNCHANGED faults
        \/ \E status \in FaultStatuses :
             /\ faults < MaxFaults
             /\ faults' = faults + 1
             /\ UNCHANGED broker
             /\ rs' = [rs EXCEPT
                  ![p].reqs = Append(@, Request("PATCH", entity["id"], Some(attrs), status)),
                  ![p].pc = "catch",
                  ![p].err = Some(AxiosError(status))]
  /\ UNCHANGED <<entities, dataModels, sources, clock, imp, hookLog, dsc, ops, nz, cl, ep, tpl,
                 ui, hk>>

\* after upsertEntity returned: payload.update(syncStatus 'synced'), then the 200 answer
ResyncMarkSynced(p) ==
  /\ rs[p].pc = "mark"
  /\ \/ /\ clock' = clock + 1
        /\ entities' = StoreUpdate(entities, rs[p].id, SyncedUpdate(clock + 1))
        /\ hookLog' = AfterChange(hookLog, entities[rs[p].id], ResyncContext)
        /\ rs' = [rs EXCEPT ![p].pc = "done", ![p].wrote = "synced",
                            ![p].response = JsonResponse(200, Null)]
        /\ UNCHANGED faults
     \/ \* payload.update rejects
        /\ faults < MaxFaults
        /\ faults' = faults + 1
        /\ rs' = [rs EXCEPT ![p].pc = "catch", ![p].err = Some(StoreError)]
        /\ UNCHANGED <<entities, clock, hookLog>>
  /\ UNCHANGED <<broker, dataModels, sources, imp, dsc, ops, nz, cl, ep, tpl, ui, hk>>

\* catch (error): payload.update(syncStatus 'error'), then the 500 answer
ResyncCatch(p) ==
  /\ rs[p].pc = "catch"
  /\ LET errorMessage == ErrorMessage(rs[p].err[1])
     IN \/ /\ rs[p].id \in 1..Len(entities)
           /\ clock' = clock + 1
           /\ entities' = StoreUpdate(entities, rs[p].id, ErrorUpdate(errorMessage, clock + 1))
           /\ hookLog' = AfterChange(hookLog, entities[rs[p].id], ResyncContext)
           /\ rs' = [rs EXCEPT ![p].pc = "done", ![p].wrote = "error",
                               ![p].response = JsonResponse(500, Some(errorMessage))]
           /\ UNCHANGED faults
        \/ \* payload.update rejects inside the catch block: nothing catches it.  A store
           \* that already rejected the call which led here is still failing.
           /\ rs[p].id \notin 1..Len(entities) \/ rs[p].err[1] = StoreError \/ faults < MaxFaults
           /\ faults' = IF rs[p].id \in 1..Len(entities) /\ rs[p].err[1] # StoreError
                        THEN faults + 1 ELSE faults
           /\ rs' = [rs EXCEPT ![p].pc = "unhandled"]
           /\ UNCHANGED <<entities, clock, hookLog>>
  /\ UNCHANGED <<broker, dataModels, sources, imp, dsc, ops, nz, cl, ep, tpl, ui, hk>>

SourceRecord(hasBrokerUrl, authToken, serviceHeader, servicePath) ==
  [hasBrokerUrl |-> hasBrokerUrl, authToken |-> authToken,
   serviceHeader |-> serviceHeader, servicePath |-> servicePath]

\* source.authToken: not set, or a token
AuthTokens == {Null, Some("tok")}

DataModelRecord(model) ==
  [model |-> model, contextUrl |-> "https://uri.etsi.org/ngsi-ld/v1/ngsi-ld-core-context.jsonld"]

InitResync ==
  /\ \E attrs \in AttrMaps, type \in {Weather, WeatherUrl}, url \in BOOLEAN :
       /\ entities = <<LocalRecord(E1, type, attrs, "s1", 1, "pending")>>
       /\ sources = [s \in {"s1"} |-> SourceRecord(url, Null, Null, Null)]
  /\ dataModels = <<DataModelRecord(Weather)>>
  /\ broker \in { <<>>, <<[id |-> E1, type |-> Weather, temp |-> "v0"]>>,
                  <<[id |-> E2, type |-> Weather, temp |-> "v0"]>> }
  /\ clock = 0
  /\ faults = 0
  /\ rs = [p \in Procs |-> IdleResync]
  /\ imp = <<>>
  /\ hookLog = <<>>
  /\ dsc = <<>>
  /\ ops = <<>>
  /\ nz = <<>>
  /\ cl = <<>>
  /\ ep = <<>>
  /\ tpl = <<>>
  /\ ui = <<>>
  /\ hk = <<>>

NextResync ==
  \E p \in Procs :
    \/ ResyncFind(p)
    \/ UpsertProbe(p)
    \/ UpsertCreate(p)
    \/ UpsertUpdate(p)
    \/ ResyncMarkSynced(p)
    \/ ResyncCatch(p)

Spec == InitResync /\ [][NextResync]_vars

----------------------------------------------------------------------------
(* importEntitiesEndpoint *)

ImportReqs == {"q1", "q2"}

\* a candidate of the request body (ImportEntityRequest)
Candidate(entityId, type) ==
  [entityId |-> entityId, type |-> type, service |-> "", servicePath |-> "/",
   attributes |-> [temp |-> "v1"]]

\* the candidates a request may carry: both ids under the short and the full type
\* name, one of a type no data model knows, one whose type is missing
Candidates ==
  {Candidate(e, t) : e \in {E1, E2}, t \in {Weather, WeatherUrl}}
    \cup {Candidate(E1, Park), Candidate(E2, Undefined)}

AlreadyExists == "Entity already exists"
TypeErrorMessage == "Cannot read properties of undefined (reading 'includes')"
NullErrorMessage == "Cannot read properties of null (reading 'entityId')"

\* let simpleType = entity.type; if (entity.type.includes('/')) simpleType = ...pop() || entity.type
SimpleType(type) == IF IncludesSlash(type) THEN LastSegmentOr(type) ELSE type

\* where: or: [{ model: equals entity.type }, { model: equals simpleType }]
MatchingModels(models, type, simpleType) ==
  {i \in 1..Len(models) : models[i].model = type \/ models[i].model = simpleType}

\* where: entityId: equals entity.entityId   (no condition on the source)
ExistingEntities(docs, entityId) ==
  {i \in 1..Len(docs) : docs[i].entityId = entityId}

\* context of the payload.create call that persists an imported entity
ImportContext_noSkip == [skipSync |-> FALSE]

ImportContext == [skipSync |-> TRUE]

\* data of the payload.create call that persists an imported entity
ImportData(c, simpleType, dataModelId, sourceId, time) ==
  [entityId |-> c.entityId, type |-> simpleType, attributes |-> c.attributes,
   service |-> c.service, servicePath |-> c.servicePath,
   source |-> sourceId, dataModel |-> dataModelId,
   syncStatus |-> "synced", lastSyncTime |-> time, lastSyncError |-> Null]

\* payload.create on 'ngsi-entities': the document as stored, with the context it was created under
StoreCreate(docs, data, context) == Append(docs, data @@ [skipSync |-> context.skipSync])

\* results.failed.push({ id, error })
PushFailed(failed, id, error) == Append(failed, [id |-> id, error |-> error])

IdleImport ==
  [pc |-> "idle", sourceId |-> "", n |-> 0, batch |-> <<>>, simpleType |-> Undefined,
   dataModelId |-> 0, writes |-> 0, last |-> "none", success |-> <<>>, failed |-> <<>>,
   response |-> Null]

\* the element of `entities` the loop is at (a JSON array may hold null)
Current(q) == imp[q].batch[Len(imp[q].batch)][1]

\* the candidate failed inside the try block: catch, push to failed, next candidate
CandidateFailed(q, message) ==
  imp' = [imp EXCEPT ![q].pc = "loop", ![q].last = "error",
                     ![q].simpleType = Undefined, ![q].dataModelId = 0,
                     ![q].failed = PushFailed(@, Current(q).entityId, message)]

\* entry of the handler: req.json(), the 400 check, findByID of the source
ImportStart(q) ==
  /\ imp[q].pc = "idle"
  /\ \E bodyOk \in BOOLEAN, sourceId \in {"", "s1", "s9"}, n \in 0..(IF q = "q1" THEN MaxBatch ELSE 1) :
       IF ~bodyOk
       THEN \* req.json() rejects or yields nothing to destructure, outside any try
            /\ imp' = [imp EXCEPT ![q].pc = "unhandled"]
            /\ UNCHANGED faults
       ELSE IF sourceId = "" \/ n = 0
       THEN /\ imp' = [imp EXCEPT ![q].pc = "done", ![q].sourceId = sourceId, ![q].n = n,
                         ![q].response =
                            JsonResponse(400, Some("Source ID and entities are required"))]
            /\ UNCHANGED faults
       ELSE \/ \* findByID rejects: outer catch
               /\ faults < MaxFaults
               /\ faults' = faults + 1
               /\ imp' = [imp EXCEPT ![q].pc = "done", ![q].sourceId = sourceId, ![q].n = n,
                            ![q].response = JsonResponse(500, Some(StoreError.message))]
            \/ /\ sourceId \notin DOMAIN sources
               /\ UNCHANGED faults
               /\ imp' = [imp EXCEPT ![q].pc = "done", ![q].sourceId = sourceId, ![q].n = n,
                            ![q].response = JsonResponse(404, Some("Source not found"))]
            \/ /\ sourceId \in DOMAIN sources
               /\ UNCHANGED faults
               /\ imp' = [imp EXCEPT ![q].pc = "loop", ![q].sourceId = sourceId, ![q].n = n]
  /\ UNCHANGED <<broker, entities, dataModels, sources, clock, rs, hookLog, dsc, ops, nz, cl,
                 ep, tpl, ui, hk>>

\* head of `for (const entity of entities)`: the next candidate up to the data-model
\* lookup, or the final answer
ImportLoop(q) ==
  /\ imp[q].pc = "loop"
  /\ IF Len(imp[q].batch) = imp[q].n
     THEN imp' = [imp EXCEPT ![q].pc = "done",
                    ![q].response = Some([status |-> 200, error |-> Null,
                                          success |-> imp[q].success,
                                          failed |-> imp[q].failed])]
     ELSE \/ \* a null element: entity.type throws inside the try, and entity.entityId
             \* throws again inside the catch block, which only the outer catch handles
             imp' = [imp EXCEPT ![q].batch = Append(@, Null), ![q].pc = "done",
                       ![q].response = JsonResponse(500, Some(NullErrorMessage))]
          \/ \E c \in Candidates :
               IF c.type = Undefined
               THEN \* entity.type.includes throws a TypeError: caught per candidate
                    imp' = [imp EXCEPT ![q].batch = Append(@, Some(c)), ![q].writes = 0,
                              ![q].last = "error",
                              ![q].failed = PushFailed(@, c.entityId, TypeErrorMessage)]
               ELSE imp' = [imp EXCEPT ![q].batch = Append(@, Some(c)), ![q].writes = 0,
                              ![q].last = "none",
                              ![q].simpleType = SimpleType(c.type), ![q].pc = "findModel"]
  /\ UNCHANGED <<broker, entities, dataModels, sources, clock, faults, rs, hookLog, dsc, ops,
                 nz, cl, ep, tpl, ui, hk>>

\* await req.payload.find({ collection: 'ngsi-data-models', ..., limit: 1 })
ImportFindModel(q) ==
  /\ imp[q].pc = "findModel"
  /\ LET matches == MatchingModels(dataModels, Current(q).type, imp[q].simpleType)
     IN \/ /\ faults < MaxFaults
           /\ faults' = faults + 1
           /\ CandidateFailed(q, StoreError.message)
        \/ /\ matches = {}
           /\ UNCHANGED faults
           /\ imp' = [imp EXCEPT ![q].pc = "createModel"]
        \/ /\ UNCHANGED faults
           /\ \E m \in matches :
                imp' = [imp EXCEPT ![q].pc = "findEntity", ![q].dataModelId = m]
  /\ UNCHANGED <<broker, entities, dataModels, sources, clock, rs, hookLog, dsc, ops, nz, cl,
                 ep, tpl, ui, hk>>

\* await req.payload.create({ collection: 'ngsi-data-models', data: { model: simpleType, ... } })
ImportCreateModel(q) ==
  /\ imp[q].pc = "createModel"
  /\ \/ /\ faults < MaxFaults
        /\ faults' = faults + 1
        /\ CandidateFailed(q, StoreError.message)
        /\ UNCHANGED dataModels
     \/ /\ UNCHANGED faults
        /\ dataModels' = Append(dataModels, DataModelRecord(imp[q].simpleType))
        /\ imp' = [imp EXCEPT ![q].pc = "findEntity", ![q].writes = @ + 1,
                              ![q].dataModelId = Len(dataModels) + 1]
  /\ UNCHANGED <<broker, entities, sources, clock, rs, hookLog, dsc, ops, nz, cl, ep, tpl, ui,
                 hk>>

\* await req.payload.find({ collection: 'ngsi-entities', where: entityId equals }), then
\* the duplicate check
ImportFindEntity(q) ==
  /\ imp[q].pc = "findEntity"
  /\ \/ /\ faults < MaxFaults
        /\ faults' = faults + 1
        /\ CandidateFailed(q, StoreError.message)
     \/ /\ UNCHANGED faults
        /\ IF ExistingEntities(entities, Current(q).entityId) # {}
           THEN imp' = [imp EXCEPT ![q].pc = "loop", ![q].last = "exists",
                          ![q].simpleType = Undefined, ![q].dataModelId = 0,
                          ![q].failed = PushFailed(@, Current(q).entityId, AlreadyExists)]
           ELSE imp' = [imp EXCEPT ![q].pc = "createEntity"]
  /\ UNCHANGED <<broker, entities, dataModels, sources, clock, rs, hookLog, dsc, ops, nz, cl,
                 ep, tpl, ui, hk>>

\* await req.payload.create({ collection: 'ngsi-entities', data, context: { skipSync: true } })
ImportCreateEntity(q) ==
  /\ imp[q].pc = "createEntity"
  /\ \/ /\ faults < MaxFaults
        /\ faults' = faults + 1
        /\ CandidateFailed(q, StoreError.message)
        /\ UNCHANGED <<entities, hookLog, clock>>
     \/ /\ UNCHANGED faults
        /\ clock' = clock + 1
        /\ LET data == ImportData(Current(q), imp[q].simpleType, imp[q].dataModelId,
                                  imp[q].sourceId, clock + 1)
           IN /\ entities' = StoreCreate(entities, data, ImportContext)
              /\ hookLog' = AfterChange(hookLog, data, ImportContext)
        /\ imp' = [imp EXCEPT ![q].pc = "loop", ![q].last = "success", ![q].writes = @ + 1,
                              ![q].simpleType = Undefined, ![q].dataModelId = 0,
                              ![q].success = Append(@, Current(q).entityId)]
  /\ UNCHANGED <<broker, dataModels, sources, rs, dsc, ops, nz, cl, ep, tpl, ui, hk>>

\* the local store before the imports: empty, or holding E1 under another source
InitImport ==
  /\ \E held \in BOOLEAN, model \in {Weather, WeatherUrl} :
       /\ entities = IF held THEN <<LocalRecord(E1, Weather, [temp |-> "v0"], "s2", 1, "synced")>>
                     ELSE <<>>
       /\ dataModels \in IF held THEN {<<DataModelRecord(model)>>}
                         ELSE {<<>>, <<DataModelRecord(model)>>}
  /\ sources = [s \in {"s1", "s2"} |-> SourceRecord(TRUE, Null, Null, Null)]
  /\ broker = <<>>
  /\ clock = 0
  /\ faults = 0
  /\ imp = [q \in ImportReqs |-> IdleImport]
  /\ hookLog = <<>>
  /\ rs = <<>>
  /\ dsc = <<>>
  /\ ops = <<>>
  /\ nz = <<>>
  /\ cl = <<>>
  /\ ep = <<>>
  /\ tpl = <<>>
  /\ ui = <<>>
  /\ hk = <<>>

NextImport ==
  \E q \in ImportReqs :
    \/ ImportStart(q)
    \/ ImportLoop(q)
    \/ ImportFindModel(q)
    \/ ImportCreateModel(q)
    \/ ImportFindEntity(q)
    \/ ImportCreateEntity(q)

ImportSpec == InitImport /\ [][NextImport]_vars

----------------------------------------------------------------------------
(* discoverEntitiesEndpoint *)

\* an optional array field of the source document: absent, or rows of { value }
\* (a row whose value is missing or empty reads as "")
OptionalRows(values) ==
  {Null} \cup {Some(r) : r \in UNION {[1..n -> values] : n \in 0..MaxRows}}

\* rows?.map((s) => s.value || dflt) || [dflt]     ([] is truthy in JS)
MapOrDefault(field, dflt) ==
  IF field = Null THEN <<dflt>>
  ELSE [k \in 1..Len(field[1]) |-> IF field[1][k] = "" THEN dflt ELSE field[1][k]]

Services(source) == MapOrDefault(source.serviceHeader, "")
ServicePaths(source) == MapOrDefault(source.servicePath, "/")

\* createNgsiClient({ brokerUrl, service: service || undefined, servicePath: servicePath || '/' })
ClientConfig(service, servicePath) ==
  [service |-> service, servicePath |-> IF servicePath = "" THEN "/" ELSE servicePath]

\* GET /ngsi-ld/v1/entities?limit=1000&options=keyValues&local=true in one tenant scope
BrokerQuery(b, config) ==
  LET InScope(e) == /\ Field(e, "service", "") = config.service
                    /\ Field(e, "servicePath", "/") = config.servicePath
      held == SelectSeq(b, InScope)
  IN  [k \in 1..Len(held) |-> [id |-> held[k].id, type |-> held[k].type]]

\* discoveredEntities.push({ id, type, service: service || '', servicePath: servicePath || '/' })
TagEntities_default(found, service, servicePath) ==
  [k \in 1..Len(found) |->
     [id |-> found[k].id, type |-> found[k].type, service |-> "", servicePath |-> "/"]]

TagEntities(found, service, servicePath) ==
  [k \in 1..Len(found) |->
     [id |-> found[k].id, type |-> found[k].type, service |-> service,
      servicePath |-> IF servicePath = "" THEN "/" ELSE servicePath]]

\* `${service || '(default)'}${servicePath}: ${error.response?.data?.detail || error.message}`
ScopeError(service, servicePath, err) ==
  [service |-> IF service = "" THEN "(default)" ELSE service,
   servicePath |-> servicePath,
   message |-> IF err.isAxiosError
               THEN (IF err.detail # Null THEN err.detail[1] ELSE err.message)
               ELSE "Unknown error"]

\* the loop position after scope (i, j): the next path, else the next service
NextScope_retry(i, j, nPaths) == <<i, j>>

NextScope(i, j, nPaths) == IF j < nPaths THEN <<i, j + 1>> ELSE <<i + 1, 1>>

\* limit: 1000 of the payload.find over the source's ngsi-entities documents
FindLimit == 1000

\* payload.find with a limit: the first page, at most `limit` documents, newest first
FirstPage(matching, limit) ==
  IF Len(matching) <= limit THEN matching
  ELSE SubSeq(matching, Len(matching) - limit + 1, Len(matching))

\* existingEntityIds.has(entity.id), over the documents payload.find returned for the source
WithStatus(discovered, docs, sourceId) ==
  LET OfSource(doc) == doc.source = sourceId
      found == FirstPage(SelectSeq(docs, OfSource), FindLimit)
      existingEntityIds == {found[k].entityId : k \in 1..Len(found)}
  IN  [k \in 1..Len(discovered) |->
         discovered[k] @@ [alreadySynced |-> discovered[k].id \in existingEntityIds]]

IdleDiscover ==
  [pc |-> "idle", sourceId |-> "", services |-> <<>>, servicePaths |-> <<>>, i |-> 0, j |-> 0,
   discovered |-> <<>>, errors |-> <<>>, queries |-> <<>>, response |-> Null]

\* entry of the handler: req.json(), the 400 check, findByID, the two scope lists
DiscoverStart ==
  /\ dsc.pc = "idle"
  /\ \E bodyOk \in BOOLEAN, sourceId \in {"", "s1", "s9"} :
       IF ~bodyOk
       THEN \* req.json() rejects or yields nothing to destructure, outside any try
            /\ dsc' = [dsc EXCEPT !.pc = "unhandled"]
            /\ UNCHANGED faults
       ELSE IF sourceId = ""
       THEN /\ dsc' = [dsc EXCEPT !.pc = "done",
                         !.response = JsonResponse(400, Some("Source ID is required"))]
            /\ UNCHANGED faults
       ELSE \/ \* findByID rejects: outer catch, not an axios error
               /\ faults < MaxFaults
               /\ faults' = faults + 1
               /\ dsc' = [dsc EXCEPT !.pc = "done", !.sourceId = sourceId,
                            !.response = JsonResponse(500, Some("Unknown error occurred"))]
            \/ /\ sourceId \notin DOMAIN sources
               /\ UNCHANGED faults
               /\ dsc' = [dsc EXCEPT !.pc = "done", !.sourceId = sourceId,
                            !.response = JsonResponse(404, Some("Source not found"))]
            \/ /\ sourceId \in DOMAIN sources
               /\ UNCHANGED faults
               /\ LET services == Services(sources[sourceId])
                      servicePaths == ServicePaths(sources[sourceId])
                  IN dsc' = [dsc EXCEPT
                       !.sourceId = sourceId, !.services = services,
                       !.servicePaths = servicePaths, !.i = 1, !.j = 1,
                       !.pc = IF Len(services) = 0 \/ Len(servicePaths) = 0
                              THEN "findLocal" ELSE "query"]
  /\ UNCHANGED <<broker, entities, dataModels, sources, clock, rs, imp, hookLog, ops, nz, cl,
                 ep, tpl, ui, hk>>

\* one pass of the inner loop body: the awaited client.get of scope (i, j), then the
\* push of its entities or of its error
DiscoverQuery ==
  /\ dsc.pc = "query"
  /\ LET service == dsc.services[dsc.i]
         servicePath == dsc.servicePaths[dsc.j]
         config == ClientConfig(service, servicePath)
         next == NextScope(dsc.i, dsc.j, Len(dsc.servicePaths))
         pc == IF next[1] > Len(dsc.services) THEN "findLocal" ELSE "query"
         headers == CreateNgsiClient(config)
     IN \/ LET found == BrokerQuery(broker, config)
           IN dsc' = [dsc EXCEPT
                !.queries = Append(@, [config |-> config, headers |-> headers,
                                       status |-> 200, data |-> found]),
                !.discovered = @ \o TagEntities(found, service, servicePath),
                !.i = next[1], !.j = next[2], !.pc = pc]
        \/ \E status \in FaultStatuses :
             /\ Len(dsc.errors) < MaxScopeFailures
             /\ dsc' = [dsc EXCEPT
                  !.queries = Append(@, [config |-> config, headers |-> headers,
                                         status |-> status, data |-> <<>>]),
                  !.errors = Append(@, ScopeError(service, servicePath, AxiosError(status))),
                  !.i = next[1], !.j = next[2], !.pc = pc]
  /\ UNCHANGED <<broker, entities, dataModels, sources, clock, faults, rs, imp, hookLog, ops,
                 nz, cl, ep, tpl, ui, hk>>

\* after the loops: the awaited payload.find of the source's local entities, then the answer
DiscoverFinish ==
  /\ dsc.pc = "findLocal"
  /\ \/ /\ faults < MaxFaults
        /\ faults' = faults + 1
        /\ dsc' = [dsc EXCEPT !.pc = "done",
                     !.response = JsonResponse(500, Some("Unknown error occurred"))]
     \/ /\ UNCHANGED faults
        /\ LET entitiesWithStatus == WithStatus(dsc.discovered, entities, dsc.sourceId)
           IN dsc' = [dsc EXCEPT !.pc = "done",
                !.response = Some(
                   [status |-> 200, error |-> Null,
                    entities |-> entitiesWithStatus,
                    total |-> Len(dsc.discovered),
                    alreadySynced |-> Cardinality({k \in 1..Len(entitiesWithStatus) :
                                                     entitiesWithStatus[k].alreadySynced}),
                    errors |-> IF Len(dsc.errors) > 0 THEN Some(dsc.errors) ELSE Null])]
  /\ UNCHANGED <<broker, entities, dataModels, sources, clock, rs, imp, hookLog, ops, nz, cl,
                 ep, tpl, ui, hk>>

\* the broker's tenants: E1 in the default scope and in a/'/', E2 in a/'/p'
TenantEntity(id, service, servicePath) ==
  [id |-> id, type |-> Weather, service |-> service, servicePath |-> servicePath]

\* a source with more local records than one page of payload.find holds: E1, imported
\* first, and FindLimit records imported after it
LargeStore ==
  <<LocalRecord(E1, Weather, [temp |-> "v0"], "s1", 1, "synced")>>
    \o [k \in 1..FindLimit |->
          LocalRecord("urn:x:n" \o ToString(k), Weather, [temp |-> "v0"], "s1", 1, "synced")]

InitDiscover ==
  /\ \/ \E sh \in OptionalRows({"", "a"}), sp \in OptionalRows({"", "/p"}) :
          /\ sources = [s \in {"s1"} |-> SourceRecord(TRUE, Some("tok"), sh, sp)]
          /\ entities \in { <<>>,
                            <<LocalRecord(E1, Weather, [temp |-> "v0"], "s1", 1, "synced")>>,
                            <<LocalRecord(E1, Weather, [temp |-> "v0"], "s2", 1, "synced")>> }
     \/ \E token \in AuthTokens :
          /\ sources = [s \in {"s1"} |-> SourceRecord(TRUE, token, Null, Null)]
          /\ entities = LargeStore
  /\ broker = <<TenantEntity(E1, "", "/"), TenantEntity(E1, "a", "/"), TenantEntity(E2, "a", "/p")>>
  /\ dataModels = <<DataModelRecord(Weather)>>
  /\ clock = 0
  /\ faults = 0
  /\ dsc = IdleDiscover
  /\ rs = <<>>
  /\ imp = <<>>
  /\ hookLog = <<>>
  /\ ops = <<>>
  /\ nz = <<>>
  /\ cl = <<>>
  /\ ep = <<>>
  /\ tpl = <<>>
  /\ ui = <<>>
  /\ hk = <<>>

NextDiscover ==
  \/ DiscoverStart
  \/ DiscoverQuery
  \/ DiscoverFinish

DiscoverSpec == InitDiscover /\ [][NextDiscover]_vars

----------------------------------------------------------------------------
(* NgsiLdOperations used directly: one caller that constructs the object and  *)
(* awaits one call after the other (getEntity, upsertEntity, deleteEntity).   *)
(* Each request is recorded with the headers it goes out with: the defaults   *)
(* of axios, those of createNgsiClient, then those of the call.               *)

MaxCalls == 2

NGSI_LD_CORE_CONTEXT == "https://uri.etsi.org/ngsi-ld/v1/ngsi-ld-core-context-v1.8.jsonld"

\* buildLinkHeader
BuildLinkHeader(contextUrl) ==
  "<" \o contextUrl \o ">; rel=\"http://www.w3.org/ns/json-ld#context\"; type=\"application/ld+json\""

\* the Accept header axios sends when the request names none
AxiosDefaults == [h \in {"Accept"} |-> "application/json, text/plain, */*"]

\* options?.embedContext
EmbedContext(options) == options # Null /\ Field(options[1], "embedContext", FALSE)

\* the headers getEntity passes with its GET
GetEntityHeaders_linkAlways(options, contextUrl) ==
  [h \in {"Accept", "Link"} |->
     IF h = "Link" THEN BuildLinkHeader(contextUrl)
     ELSE IF EmbedContext(options) THEN "application/ld+json" ELSE "application/json"]

GetEntityHeaders(options, contextUrl) ==
  IF EmbedContext(options)
  THEN [h \in {"Accept"} |-> "application/ld+json"]
  ELSE [h \in {"Accept", "Link"} |->
          IF h = "Accept" THEN "application/json" ELSE BuildLinkHeader(contextUrl)]

\* the headers createEntity and updateEntityAttrs pass with their POST / PATCH
WriteHeaders(contextUrl) ==
  [h \in {"Content-Type", "Link"} |->
     IF h = "Link" THEN BuildLinkHeader(contextUrl) ELSE "application/json"]

WireRequest(method, id, headers, body, status) ==
  [method |-> method, id |-> id, headers |-> headers, body |-> body, status |-> status]

\* GET /ngsi-ld/v1/entities/{id}: the entity, with its @context in the body when the
\* request accepts application/ld+json
BrokerGet(b, id, headers) ==
  LET e == b[CHOOSE i \in 1..Len(b) : b[i]["id"] = id]
  IN  IF headers["Accept"] = "application/ld+json"
      THEN Spread(e, [k \in {"@context"} |-> NGSI_LD_CORE_CONTEXT])
      ELSE e

\* DELETE /ngsi-ld/v1/entities/{id}: 204, or 404 when absent
BrokerDeleteStatus(b, id) == IF BrokerHas(b, id) THEN 204 ELSE 404
BrokerDelete(b, id) ==
  LET Other(e) == e["id"] # id IN SelectSeq(b, Other)

\* the entities the caller upserts
UpsertEntities ==
  { [id |-> E1, type |-> Weather, temp |-> "v1"],
    [id |-> E1, type |-> Weather, temp |-> "v1", hum |-> "v2"] }

\* options of getEntity: none, {}, { embedContext: false }, { embedContext: true }
GetOptions ==
  {Null, Some(EmptyObject), Some([embedContext |-> FALSE]), Some([embedContext |-> TRUE])}

Call(op, arg, options) ==
  [op |-> op, arg |-> arg, options |-> options, reqs |-> <<>>,
   exists |-> "none", outcome |-> "pending", value |-> Null]

LastCall == ops.calls[Len(ops.calls)]

Ready == IF ops.calls = <<>> THEN TRUE ELSE LastCall.outcome # "pending"

\* every request of the client: config defaults, overridden by the call's own headers
Outgoing(headers) == Spread(Spread(AxiosDefaults, ops.defaults), headers)

\* the call is over: it returned `value`, or threw the AxiosError of `status`
Settle(call, req, status, value) ==
  [call EXCEPT !.reqs = Append(@, req),
               !.outcome = IF Is2xx(status) THEN "returned" ELSE "threw",
               !.value = IF Is2xx(status) THEN Some(value) ELSE Some(AxiosError(status))]

\* a status the broker answers, or an injected failure within the budget
Answers(status, answered) ==
  /\ status \in {answered} \cup FaultStatuses
  /\ status \in FaultStatuses => faults < MaxFaults
  /\ faults' = IF status \in FaultStatuses THEN faults + 1 ELSE faults

\* await ngsi.getEntity(id, options)
CallGetEntity ==
  /\ Ready /\ Len(ops.calls) < MaxCalls
  /\ \E id \in {E1, E2}, options \in GetOptions, status \in {200, 404} \cup FaultStatuses :
       /\ Answers(status, BrokerHead(broker, id))
       /\ LET headers == Outgoing(GetEntityHeaders(options, ops.contextUrl))
              req == WireRequest("GET", id, headers, Null, status)
              data == IF Is2xx(status) THEN BrokerGet(broker, id, headers) ELSE EmptyObject
          IN ops' = [ops EXCEPT !.calls =
                       Append(@, Settle(Call("getEntity", id, options), req, status, data))]
  /\ UNCHANGED <<broker, entities, dataModels, sources, clock, rs, imp, hookLog, dsc, nz, cl,
                 ep, tpl, ui, hk>>

\* await ngsi.deleteEntity(id)
CallDeleteEntity ==
  /\ Ready /\ Len(ops.calls) < MaxCalls
  /\ \E id \in {E1, E2}, status \in {204, 404} \cup FaultStatuses :
       /\ Answers(status, BrokerDeleteStatus(broker, id))
       /\ broker' = IF Is2xx(status) THEN BrokerDelete(broker, id) ELSE broker
       /\ LET req == WireRequest("DELETE", id, Outgoing(NoHeaders), Null, status)
          IN ops' = [ops EXCEPT !.calls =
                       Append(@, Settle(Call("deleteEntity", id, Null), req, status, "void"))]
  /\ UNCHANGED <<entities, dataModels, sources, clock, rs, imp, hookLog, dsc, nz, cl, ep, tpl,
                 ui, hk>>

\* ngsi.upsertEntity(entity) up to its first await: const exists = await this.entityExists(entity.id)
CallUpsertProbe ==
  /\ Ready /\ Len(ops.calls) < MaxCalls
  /\ \E entity \in UpsertEntities, status \in {200, 404} \cup FaultStatuses :
       /\ Answers(status, BrokerHead(broker, entity["id"]))
       /\ LET req == WireRequest("HEAD", entity["id"], Outgoing(NoHeaders), Null, status)
              exists == EntityExists(status)
              call == Call("upsertEntity", entity, Null)
          IN ops' = [ops EXCEPT !.calls = Append(@,
                       [call EXCEPT !.reqs = <<req>>, !.exists = exists,
                                    !.outcome = IF exists = "throw" THEN "threw" ELSE "pending",
                                    !.value = IF exists = "throw" THEN Some(AxiosError(status))
                                              ELSE Null])]
  /\ UNCHANGED <<broker, entities, dataModels, sources, clock, rs, imp, hookLog, dsc, nz, cl,
                 ep, tpl, ui, hk>>

\* upsertEntity, else branch: await this.createEntity(entity); return 'created'
CallUpsertCreate ==
  /\ ~Ready /\ LastCall.exists = "false"
  /\ LET body == CreateBody(LastCall.arg)
     IN \E status \in {201, 409} \cup FaultStatuses :
          /\ Answers(status, BrokerPostStatus(broker, body))
          /\ broker' = IF status \in FaultStatuses THEN broker ELSE BrokerPost(broker, body)
          /\ LET req == WireRequest("POST", body["id"], Outgoing(WriteHeaders(ops.contextUrl)),
                                    Some(body), status)
                 done == Settle(LastCall, req, status, "created")
             IN ops' = [ops EXCEPT !.calls[Len(ops.calls)] =
                          [done EXCEPT !.outcome = IF CreateEntity(status) = "ok"
                                                   THEN "returned" ELSE "threw"]]
  /\ UNCHANGED <<entities, dataModels, sources, clock, rs, imp, hookLog, dsc, nz, cl, ep, tpl,
                 ui, hk>>

\* upsertEntity, then branch: await this.updateEntityAttrs(entity.id, attrs); return 'updated'
CallUpsertUpdate ==
  /\ ~Ready /\ LastCall.exists = "true"
  /\ LET entity == LastCall.arg
         attrs == UpdateBody(entity)
     IN \E applied \in SUBSET DOMAIN attrs, status \in {204, 207, 404} \cup FaultStatuses :
          /\ applied # {} \/ DOMAIN attrs = {}
          /\ Answers(status, BrokerPatchStatus(broker, entity["id"], attrs, applied))
          /\ status \in FaultStatuses => applied = DOMAIN attrs
          /\ broker' = IF Is2xx(status) THEN BrokerPatch(broker, entity["id"], attrs, applied)
                        ELSE broker
          /\ LET req == WireRequest("PATCH", entity["id"], Outgoing(WriteHeaders(ops.contextUrl)),
                                    Some(attrs), status)
                 done == Settle(LastCall, req, status, "updated")
             IN ops' = [ops EXCEPT !.calls[Len(ops.calls)] =
                          [done EXCEPT !.outcome = IF UpdateEntityAttrs(status) = "ok"
                                                   THEN "returned" ELSE "threw"]]
  /\ UNCHANGED <<entities, dataModels, sources, clock, rs, imp, hookLog, dsc, nz, cl, ep, tpl,
                 ui, hk>>

\* new NgsiLdOperations(config, contextUrl): with tenant and token under the core
\* context, or bare under a context of its own
OpsClients ==
  { [config |-> [service |-> "a", servicePath |-> "/p", authToken |-> Some("tok")],
     contextUrl |-> NGSI_LD_CORE_CONTEXT],
    [config |-> [service |-> "", servicePath |-> "/", authToken |-> Null],
     contextUrl |-> "https://x/y/context.jsonld"] }

InitOps ==
  /\ \E c \in OpsClients :
       ops = [defaults |-> CreateNgsiClient(c.config), contextUrl |-> c.contextUrl, calls |-> <<>>]
  /\ broker \in { <<>>,
                  <<[id |-> E1, type |-> Weather, temp |-> "v0"]>>,
                  <<[id |-> E1, type |-> Weather, temp |-> "v0", hum |-> "v0"]>> }
  /\ entities = <<>>
  /\ dataModels = <<>>
  /\ sources = <<>>
  /\ clock = 0
  /\ faults = 0
  /\ rs = <<>>
  /\ imp = <<>>
  /\ hookLog = <<>>
  /\ dsc = <<>>
  /\ nz = <<>>
  /\ cl = <<>>
  /\ ep = <<>>
  /\ tpl = <<>>
  /\ ui = <<>>
  /\ hk = <<>>

NextOps ==
  \/ CallGetEntity
  \/ CallDeleteEntity
  \/ CallUpsertProbe
  \/ CallUpsertCreate
  \/ CallUpsertUpdate

OpsSpec == InitOps /\ [][NextOps]_vars

----------------------------------------------------------------------------
(* Type normalisation on its own: one type string, normalised by import's    *)
(* code and by resync's code, each applied again to its own result.          *)

MaxSegments == 3

MaxApply == 2

Segments == {"", "x", "Weather"}

\* the type strings: up to MaxSegments '/'-separated segments, and the full URL
TypeStrings ==
  UNION {[1..n -> Segments] : n \in 1..MaxSegments} \cup {WeatherUrl}

\* the value the next application takes: the string itself, then the latest result
Operand(results) == IF results = <<>> THEN nz.t ELSE results[Len(results)]

\* importEntitiesEndpoint, lines 147-151, on the operand
NormalizeImport ==
  /\ Len(nz.import) < MaxApply
  /\ nz' = [nz EXCEPT !.import = Append(@, SimpleType(Operand(nz.import)))]
  /\ UNCHANGED <<broker, entities, dataModels, sources, clock, faults, rs, imp, hookLog, dsc,
                 ops, cl, ep, tpl, ui, hk>>

\* resyncEntityEndpoint, lines 878-880, on the operand
NormalizeResync ==
  /\ Len(nz.resync) < MaxApply
  /\ nz' = [nz EXCEPT !.resync = Append(@, ShortType(Operand(nz.resync)))]
  /\ UNCHANGED <<broker, entities, dataModels, sources, clock, faults, rs, imp, hookLog, dsc,
                 ops, cl, ep, tpl, ui, hk>>

InitNormalize ==
  /\ nz \in {[t |-> t, import |-> <<>>, resync |-> <<>>] : t \in TypeStrings}
  /\ broker = <<>>
  /\ entities = <<>>
  /\ dataModels = <<>>
  /\ sources = <<>>
  /\ clock = 0
  /\ faults = 0
  /\ rs = <<>>
  /\ imp = <<>>
  /\ hookLog = <<>>
  /\ dsc = <<>>
  /\ ops = <<>>
  /\ cl = <<>>
  /\ ep = <<>>
  /\ tpl = <<>>
  /\ ui = <<>>
  /\ hk = <<>>

NextNormalize ==
  \/ NormalizeImport
  \/ NormalizeResync

NormalizeSpec == InitNormalize /\ [][NextNormalize]_vars

----------------------------------------------------------------------------
(* createNgsiClient on its own: one configuration, and the default headers   *)
(* of the client created from it.                                            *)

\* an optional key of a configuration object: absent, or present with one of `values`
Optional(key, values) == {EmptyObject} \cup {[k \in {key} |-> v] : v \in values}

\* NgsiClientConfig: service, servicePath and authToken are optional strings
ClientConfigs ==
  {s @@ sp @@ t : s \in Optional("service", {"", " ", "a", " a "}),
                  sp \in Optional("servicePath", {"", " ", "/", "/p "}),
                  t \in Optional("authToken", {Some(""), Some("tok")})}

\* const client = createNgsiClient(config)
CreateClient ==
  /\ cl.headers = Null
  /\ cl' = [cl EXCEPT !.headers = Some(CreateNgsiClient(cl.config))]
  /\ UNCHANGED <<broker, entities, dataModels, sources, clock, faults, rs, imp, hookLog, dsc,
                 ops, nz, ep, tpl, ui, hk>>

InitClient ==
  /\ cl \in {[config |-> c, headers |-> Null] : c \in ClientConfigs}
  /\ broker = <<>>
  /\ entities = <<>>
  /\ dataModels = <<>>
  /\ sources = <<>>
  /\ clock = 0
  /\ faults = 0
  /\ rs = <<>>
  /\ imp = <<>>
  /\ hookLog = <<>>
  /\ dsc = <<>>
  /\ ops = <<>>
  /\ nz = <<>>
  /\ ep = <<>>
  /\ tpl = <<>>
  /\ ui = <<>>
  /\ hk = <<>>

NextClient == CreateClient

ClientSpec == InitClient /\ [][NextClient]_vars

----------------------------------------------------------------------------
(* Template rendering: MapboxLayerManager.parseTemplate (popups) and the      *)
(* card's buildTitle, applied to one template over one context.  A JS value   *)
(* is a record of its typeof and its content; an object's content is the      *)
(* sequence of its own <<key, value>> entries, in insertion order; a template *)
(* is the sequence of its pieces, plain text or {{path}} placeholders, a path *)
(* being the sequence of its '.'-separated segments.                          *)

MaxTokens == 3

Str(s) == [t |-> "string", v |-> s]
Num(n) == [t |-> "number", v |-> n]
Obj(entries) == [t |-> "object", v |-> entries]
JsNull == [t |-> "null", v |-> ""]
JsUndefined == [t |-> "undefined", v |-> ""]
Fn(name) == [t |-> "function", v |-> name]

\* properties every plain object inherits from Object.prototype
ObjectPrototype == {"constructor", "toString"}

\* obj[key]: the own property, else the inherited one, else undefined
GetProperty(obj, key) ==
  IF \E i \in 1..Len(obj.v) : obj.v[i][1] = key
  THEN obj.v[CHOOSE i \in 1..Len(obj.v) : obj.v[i][1] = key][2]
  ELSE IF key \in ObjectPrototype THEN Fn(key)
  ELSE JsUndefined

\* getNestedValue: path.split('.').reduce(..., obj)
RECURSIVE GetNestedValue(_, _)
GetNestedValue(current, path) ==
  IF path = <<>> THEN current
  ELSE GetNestedValue(IF current.t = "object" THEN GetProperty(current, Head(path))
                      ELSE JsUndefined,
                      Tail(path))

\* JSON.stringify of a value made of objects, strings, integers and null
RECURSIVE JsonStringify(_)
JsonStringify(value) ==
  LET RECURSIVE Members(_)
      Members(entries) ==
        IF entries = <<>> THEN ""
        ELSE "\"" \o entries[1][1] \o "\":" \o JsonStringify(entries[1][2])
             \o (IF Len(entries) > 1 THEN "," ELSE "") \o Members(Tail(entries))
  IN CASE value.t = "object" -> "{" \o Members(value.v) \o "}"
       [] value.t = "string" -> "\"" \o value.v \o "\""
       [] value.t = "number" -> ToString(value.v)
       [] OTHER              -> "null"

\* formatValue (numbers of the model are integers)
FormatValue(value) ==
  CASE value.t \in {"null", "undefined"} -> "-"
    [] value.t = "object"   -> JsonStringify(value)
    [] value.t = "number"   -> ToString(value.v)
    [] value.t = "function" -> "function " \o value.v \o "() { [native code] }"
    [] OTHER                -> value.v

Text(s) == [kind |-> "text", s |-> s, path |-> <<>>, pad |-> FALSE]
Placeholder(path, pad) == [kind |-> "placeholder", s |-> "", path |-> path, pad |-> pad]

RECURSIVE Join(_, _)
Join(strings, sep) ==
  IF strings = <<>> THEN ""
  ELSE IF Len(strings) = 1 THEN strings[1]
  ELSE strings[1] \o sep \o Join(Tail(strings), sep)

\* the text of a piece as it stands in the template string
Source(token) ==
  IF token.kind = "text" THEN token.s
  ELSE "{{" \o (IF token.pad THEN " " ELSE "") \o Join(token.path, ".")
            \o (IF token.pad THEN " " ELSE "") \o "}}"

\* parseTemplate: template.replace(/\{\{([^}]+)\}\}/g, (match, path) =>
\*   formatValue(getNestedValue(properties, path.trim())))
ParseTemplate(template, properties) ==
  Join([k \in 1..Len(template) |->
          IF template[k].kind = "text" THEN template[k].s
          ELSE FormatValue(GetNestedValue(properties, template[k].path))], "")

\* String(data.id) as the replacement of String.prototype.replace
Replacement(value) == IF value.t = "undefined" THEN "undefined" ELSE value.v

\* buildTitle: (displayOptions?.title || 'NGSI Entity') with {{entityId}} replaced by
\* data.id and {{entityType}} by data.type
BuildTitle(title, data) ==
  IF title = <<>> THEN "NGSI Entity"
  ELSE Join([k \in 1..Len(title) |->
               IF title[k].kind = "placeholder" /\ ~title[k].pad
                  /\ title[k].path \in {<<"entityId">>, <<"entityType">>}
               THEN Replacement(GetProperty(data, IF title[k].path = <<"entityId">>
                                                  THEN "id" ELSE "type"))
               ELSE Source(title[k])], "")

\* the paths the templates use
Paths ==
  { <<"entityId">>, <<"entityType">>, <<"data", "name">>, <<"data", "missing">>,
    <<"data", "name", "first">>, <<"missing", "name">>, <<"data", "toString">> }

Tokens ==
  {Text(" - ")} \cup {Placeholder(path, FALSE) : path \in Paths}
    \cup {Placeholder(<<"data", "name">>, TRUE)}

Templates == UNION {[1..n -> Tokens] : n \in 1..MaxTokens}

\* an entity as the popup and the card see it, its attributes under `data`
EntityContext(data) ==
  Obj(<< <<"entityId", Str(E1)>>, <<"id", Str(E1)>>, <<"entityType", Str("Weather")>>,
         <<"type", Str("Weather")>> >> \o data)

Contexts ==
  { EntityContext(<< <<"data", Obj(<< <<"name", Str("Foo")>>, <<"n", Num(3)>> >>)>> >>),
    EntityContext(<< <<"data", Str("Foo")>> >>),
    EntityContext(<< <<"data", JsNull>> >>),
    EntityContext(<<>>) }

\* renderPopupContent with a popupTemplate
RenderPopup ==
  /\ tpl.popup = Null
  /\ tpl' = [tpl EXCEPT !.popup = Some(ParseTemplate(tpl.template, tpl.context))]
  /\ UNCHANGED <<broker, entities, dataModels, sources, clock, faults, rs, imp, hookLog, dsc,
                 ops, nz, cl, ep, ui, hk>>

\* the card's title
RenderTitle ==
  /\ tpl.title = Null
  /\ tpl' = [tpl EXCEPT !.title = Some(BuildTitle(tpl.template, tpl.context))]
  /\ UNCHANGED <<broker, entities, dataModels, sources, clock, faults, rs, imp, hookLog, dsc,
                 ops, nz, cl, ep, ui, hk>>

InitTemplate ==
  /\ tpl \in {[template |-> t, context |-> c, popup |-> Null, title |-> Null] :
                t \in Templates, c \in Contexts}
  /\ broker = <<>>
  /\ entities = <<>>
  /\ dataModels = <<>>
  /\ sources = <<>>
  /\ clock = 0
  /\ faults = 0
  /\ rs = <<>>
  /\ imp = <<>>
  /\ hookLog = <<>>
  /\ dsc = <<>>
  /\ ops = <<>>
  /\ nz = <<>>
  /\ cl = <<>>
  /\ ep = <<>>
  /\ ui = <<>>
  /\ hk = <<>>

NextTemplate ==
  \/ RenderPopup
  \/ RenderTitle

TemplateSpec == InitTemplate /\ [][NextTemplate]_vars

----------------------------------------------------------------------------
(* The admin import flow: SyncEntities.handleImport over the entities a       *)
(* discovery listed.  The two endpoints it posts to answer as the server      *)
(* decides: a detail fetch succeeds or fails, an import answers with the ids  *)
(* it stored and those it rejected, or fails as a whole.                      *)

MaxDiscovered == 3

DiscoveredId(k) == "urn:x:" \o ToString(k)

\* the `entities` state after a discovery that found only new entities
DiscoveredList ==
  [k \in 1..MaxDiscovered |-> [id |-> DiscoveredId(k), alreadySynced |-> FALSE]]

\* toast.error / toast.success: the ids a message names, `blanket` for a message
\* about the operation as a whole
Toast(kind, ids, blanket) == [kind |-> kind, ids |-> ids, blanket |-> blanket]

\* for (const entityId of selectedEntities): the ids in iteration order
SelectionOrder(selected) ==
  LET InSelection(e) == e.id \in selected
      listed == SelectSeq(DiscoveredList, InSelection)
  IN  [k \in 1..Len(listed) |-> listed[k].id]

\* prev.map((e) => (data.success.includes(e.id) ? { ...e, alreadySynced: true } : e))
MarkImported(list, success) ==
  [k \in 1..Len(list) |->
     IF list[k].id \in success THEN [list[k] EXCEPT !.alreadySynced = TRUE] ELSE list[k]]

\* the step after the detail fetches: the import request, or the toast when no
\* detail could be fetched; finally setImporting(false)
AfterDetails(u) ==
  IF u.pending # <<>> THEN u
  ELSE IF u.toImport = <<>>
  THEN [u EXCEPT !.pc = "done", !.importing = FALSE,
                 !.toasts = Append(@, Toast("error", {}, TRUE))]
  ELSE [u EXCEPT !.pc = "import"]

\* handleImport up to its first await
UiStartImport ==
  /\ ui.pc = "idle"
  /\ IF ui.selected = {}
     THEN ui' = [ui EXCEPT !.pc = "done", !.toasts = Append(@, Toast("error", {}, TRUE))]
     ELSE ui' = [ui EXCEPT !.pc = "details", !.importing = TRUE,
                           !.pending = SelectionOrder(ui.selected)]
  /\ UNCHANGED <<broker, entities, dataModels, sources, clock, faults, rs, imp, hookLog, dsc,
                 ops, nz, cl, ep, tpl, hk>>

\* one pass of the loop: the awaited post to fetch-entity-details, then the push to
\* entitiesToImport, or console.error in the catch block
UiDetailsAnswer ==
  /\ ui.pc = "details"
  /\ \E ok \in BOOLEAN :
       LET entityId == Head(ui.pending)
           next == [ui EXCEPT !.pending = Tail(@),
                              !.toImport = IF ok THEN Append(@, entityId) ELSE @,
                              !.dropped = IF ok THEN @ ELSE @ \cup {entityId}]
       IN ui' = AfterDetails(next)
  /\ UNCHANGED <<broker, entities, dataModels, sources, clock, faults, rs, imp, hookLog, dsc,
                 ops, nz, cl, ep, tpl, hk>>

\* the awaited post to import-entities, then the toasts and the state updates
UiImportAnswer ==
  /\ ui.pc = "import"
  /\ \/ \* the request failed: outer catch
        ui' = [ui EXCEPT !.pc = "done", !.importing = FALSE,
                         !.toasts = Append(@, Toast("error", {}, TRUE))]
     \/ \E failed \in SUBSET {ui.toImport[k] : k \in 1..Len(ui.toImport)} :
          LET sent == {ui.toImport[k] : k \in 1..Len(ui.toImport)}
              success == sent \ failed
              reported == Append(ui.toasts, Toast("success", success, FALSE))
          IN ui' = [ui EXCEPT
               !.pc = "done", !.importing = FALSE,
               !.entities = MarkImported(@, success),
               !.selected = {},
               !.toasts = IF failed # {} THEN Append(reported, Toast("error", failed, FALSE))
                          ELSE reported]
  /\ UNCHANGED <<broker, entities, dataModels, sources, clock, faults, rs, imp, hookLog, dsc,
                 ops, nz, cl, ep, tpl, hk>>

InitUi ==
  /\ ui \in {[pc |-> "idle", entities |-> DiscoveredList, selected |-> sel, chosen |-> sel,
              pending |-> <<>>, toImport |-> <<>>, dropped |-> {}, importing |-> FALSE,
              toasts |-> <<>>] :
               sel \in SUBSET {DiscoveredId(k) : k \in 1..MaxDiscovered}}
  /\ broker = <<>>
  /\ entities = <<>>
  /\ dataModels = <<>>
  /\ sources = <<>>
  /\ clock = 0
  /\ faults = 0
  /\ rs = <<>>
  /\ imp = <<>>
  /\ hookLog = <<>>
  /\ dsc = <<>>
  /\ ops = <<>>
  /\ nz = <<>>
  /\ cl = <<>>
  /\ ep = <<>>
  /\ tpl = <<>>
  /\ hk = <<>>

NextUi ==
  \/ UiStartImport
  \/ UiDetailsAnswer
  \/ UiImportAnswer

UiSpec == InitUi /\ [][NextUi]_vars

----------------------------------------------------------------------------
(* HookSpec: the useNgsiData hook of one mounted component. Its options   *)
(* change by re-rendering, fetchData is started by the effect, by the     *)
(* refresh interval and by refetch, and the broker answers the fetches in *)
(* flight in any order.                                                   *)

MaxFetches == 3

BrokerUrl == "http://broker"

HookOptions ==
  [brokerUrl : {"", BrokerUrl}, entityId : {"", E1, E2}, entityType : {"", "Weather"},
   refreshInterval : {0, 30}, enabled : BOOLEAN]

\* the dependency list of useCallback(fetchData): refreshInterval is not part of it
FetchDeps(o) == <<o.brokerUrl, o.entityId, o.entityType, o.enabled>>

\* the guards of fetchData before its first setState
FetchRuns(o) == o.enabled /\ o.brokerUrl # "" /\ (o.entityId # "" \/ o.entityType # "")

\* client.getEntity(entityId) when entityId is set, else client.queryEntities({type})
FetchRequest(o) ==
  IF o.entityId # "" THEN <<"getEntity", o.entityId>> ELSE <<"queryEntities", o.entityType>>

\* fetchData up to its await: setIsLoading(true), setError(null), the request leaves
FetchData(h) ==
  IF ~FetchRuns(h.options) THEN h
  ELSE [h EXCEPT !.isLoading = TRUE, !.error = Null, !.started = @ + 1,
                 !.inflight = @ \cup {[n |-> h.started + 1, request |-> FetchRequest(h.options)]}]

\* err instanceof NgsiError keeps its status, any other error becomes NgsiError(message, 0)
HookError(f, outcome) ==
  [of |-> f.n, status |-> IF outcome = "NgsiError" THEN 404 ELSE 0]

\* fetchData after its await: try / catch / finally, each setState under isMountedRef.current
FetchSettled(h, f, outcome) ==
  LET left == [h EXCEPT !.inflight = @ \ {f}, !.time = @ + 1]
  IN  IF ~h.mounted THEN left
      ELSE IF outcome = "ok"
      THEN [left EXCEPT !.data = Some([of |-> f.n, request |-> f.request]),
                        !.lastUpdated = Some(h.time + 1),
                        !.error = Null, !.isLoading = FALSE]
      ELSE [left EXCEPT !.error = Some(HookError(f, outcome)), !.isLoading = FALSE]

\* a render with new options; the effect calls fetchData when its dependencies changed
HookSetOptions ==
  /\ hk.mounted
  /\ hk.started < MaxFetches
  /\ \E o \in HookOptions :
       /\ o # hk.options
       /\ hk' = IF FetchDeps(o) # FetchDeps(hk.options)
                THEN FetchData([hk EXCEPT !.options = o])
                ELSE [hk EXCEPT !.options = o]
  /\ UNCHANGED <<broker, entities, dataModels, sources, clock, faults, rs, imp, hookLog, dsc,
                 ops, nz, cl, ep, tpl, ui>>

\* setInterval(() => fetchData(), refreshInterval * 1000), set while refreshInterval > 0 && enabled
HookTick ==
  /\ hk.mounted
  /\ hk.started < MaxFetches
  /\ hk.options.refreshInterval > 0 /\ hk.options.enabled
  /\ hk' = FetchData(hk)
  /\ hk' # hk
  /\ UNCHANGED <<broker, entities, dataModels, sources, clock, faults, rs, imp, hookLog, dsc,
                 ops, nz, cl, ep, tpl, ui>>

\* refetch()
HookRefetch ==
  /\ hk.mounted
  /\ hk.started < MaxFetches
  /\ hk' = FetchData(hk)
  /\ hk' # hk
  /\ UNCHANGED <<broker, entities, dataModels, sources, clock, faults, rs, imp, hookLog, dsc,
                 ops, nz, cl, ep, tpl, ui>>

\* the broker answers one of the fetches in flight
HookAnswer ==
  /\ \E f \in hk.inflight : \E outcome \in {"ok", "NgsiError", "Error"} :
       hk' = FetchSettled(hk, f, outcome)
  /\ UNCHANGED <<broker, entities, dataModels, sources, clock, faults, rs, imp, hookLog, dsc,
                 ops, nz, cl, ep, tpl, ui>>

\* the cleanup of the mount effect: isMountedRef.current = false, the interval is cleared
HookUnmount ==
  /\ hk.mounted
  /\ hk' = [hk EXCEPT !.mounted = FALSE]
  /\ UNCHANGED <<broker, entities, dataModels, sources, clock, faults, rs, imp, hookLog, dsc,
                 ops, nz, cl, ep, tpl, ui>>

\* the first render and its effects: fetchData has been called once
InitHook ==
  /\ hk \in {FetchData([options |-> o, data |-> Null, isLoading |-> FALSE, error |-> Null,
                        lastUpdated |-> Null, mounted |-> TRUE, started |-> 0, inflight |-> {},
                        time |-> 0]) : o \in HookOptions}
  /\ broker = <<>>
  /\ entities = <<>>
  /\ dataModels = <<>>
  /\ sources = <<>>
  /\ clock = 0
  /\ faults = 0
  /\ rs = <<>>
  /\ imp = <<>>
  /\ hookLog = <<>>
  /\ dsc = <<>>
  /\ ops = <<>>
  /\ nz = <<>>
  /\ cl = <<>>
  /\ ep = <<>>
  /\ tpl = <<>>
  /\ ui = <<>>

NextHook ==
  \/ HookSetOptions
  \/ HookTick
  \/ HookRefetch
  \/ HookAnswer
  \/ HookUnmount

HookSpec == InitHook /\ [][NextHook]_vars

----------------------------------------------------------------------------
(* The endpoints side by side: one resync, one import and one discovery of    *)
(* the same source, interleaved at their awaits.                              *)

\* a record whose last push failed
FailedRecord(entityId, type, attrs, source, dm) ==
  Spread(LocalRecord(entityId, type, attrs, source, dm, "error"),
         [lastSyncError |-> Some(AxiosMessage(500))])

InitSystem ==
  /\ entities \in { <<LocalRecord(E1, Weather, [temp |-> "v1", hum |-> "v2"], "s1", 1, "pending")>>,
                    <<FailedRecord(E1, Weather, [temp |-> "v1", hum |-> "v2"], "s1", 1)>>,
                    <<LocalRecord(E1, Weather, [temp |-> "v1", hum |-> "v2"], "s2", 1, "pending")>> }
  /\ dataModels = <<DataModelRecord(Weather)>>
  /\ sources = [s \in {"s1", "s2"} |-> SourceRecord(TRUE, Some("tok"), Some(<<"", "a">>), Null)]
  /\ broker \in { <<>>, <<TenantEntity(E1, "", "/")>> }
  /\ clock = 0
  /\ faults = 0
  /\ rs = [p \in Procs |-> IdleResync]
  /\ imp = [q \in ImportReqs |-> IdleImport]
  /\ dsc = IdleDiscover
  /\ hookLog = <<>>
  /\ ops = <<>>
  /\ nz = <<>>
  /\ cl = <<>>
  /\ ep = <<>>
  /\ tpl = <<>>
  /\ ui = <<>>
  /\ hk = <<>>

NextSystem ==
  \/ ResyncFind("p1")
  \/ UpsertProbe("p1")
  \/ UpsertCreate("p1")
  \/ UpsertUpdate("p1")
  \/ ResyncMarkSynced("p1")
  \/ ResyncCatch("p1")
  \/ ImportStart("q2")
  \/ ImportLoop("q2")
  \/ ImportFindModel("q2")
  \/ ImportCreateModel("q2")
  \/ ImportFindEntity("q2")
  \/ ImportCreateEntity("q2")
  \/ NextDiscover

SystemSpec == InitSystem /\ [][NextSystem]_vars

----------------------------------------------------------------------------
(* The HTTP surface: one request to one of the seven handlers.  Besides       *)
(* resync, import and discovery these are fetchEntityDetailsEndpoint,         *)
(* fetchEntityEndpoint, the pass-through proxy and the entities API.          *)

Handlers ==
  {"resync", "import", "discover", "fetchDetails", "fetchEntity", "proxy", "entitiesApi"}

\* an invocation that is never made
NotInvoked(inv) == [inv EXCEPT !.pc = "none"]

IdleEndpoint(handler) ==
  [handler |-> handler, pc |-> "idle", params |-> EmptyObject, reqs |-> <<>>, response |-> Null]

DataResponse(status, data) == Some([status |-> status, error |-> Null, data |-> data])

\* the handler's first await and the code after it failed or answered
Answer(response) == ep' = [ep EXCEPT !.pc = "done", !.response = response]

\* GET /ngsi-ld/v1/entities/{id} in one tenant scope: 200, or 404 when absent there
BrokerGetStatus(b, id, config) ==
  IF \E k \in 1..Len(BrokerQuery(b, config)) : BrokerQuery(b, config)[k].id = id
  THEN 200 ELSE 404

\* const { id, type, '@context': context, ...attributes } = response.data
DetailsBody(data) ==
  [id |-> data["id"], type |-> data["type"],
   attributes |-> Without(data, {"id", "type", "@context"})]

\* the message of fetchEntityDetailsEndpoint's catch block
DetailsError(err) ==
  IF err.isAxiosError
  THEN (IF err.detail # Null THEN err.detail[1] ELSE err.message)
  ELSE "Unknown error occurred"

\* fetchEntityDetailsEndpoint: req.json(), the 400 check, findByID of the source
FetchDetailsStart ==
  /\ ep.handler = "fetchDetails" /\ ep.pc = "idle"
  /\ \E bodyOk \in BOOLEAN, sourceId \in {"", "s1", "s9"}, entityId \in {"", E1, E2},
        service \in {"", "a"} :
       LET params == [sourceId |-> sourceId, entityId |-> entityId, service |-> service,
                      servicePath |-> ""]
       IN IF ~bodyOk
          THEN \* req.json() rejects or yields nothing to destructure, outside any try
               /\ ep' = [ep EXCEPT !.pc = "unhandled"]
               /\ UNCHANGED faults
          ELSE IF sourceId = "" \/ entityId = ""
          THEN /\ ep' = [ep EXCEPT !.pc = "done", !.params = params,
                           !.response =
                              JsonResponse(400, Some("Source ID and Entity ID are required"))]
               /\ UNCHANGED faults
          ELSE \/ /\ faults < MaxFaults
                  /\ faults' = faults + 1
                  /\ ep' = [ep EXCEPT !.pc = "done", !.params = params,
                              !.response = JsonResponse(500, Some(DetailsError(StoreError)))]
               \/ /\ sourceId \notin DOMAIN sources
                  /\ UNCHANGED faults
                  /\ ep' = [ep EXCEPT !.pc = "done", !.params = params,
                              !.response = JsonResponse(404, Some("Source not found"))]
               \/ /\ sourceId \in DOMAIN sources
                  /\ UNCHANGED faults
                  /\ ep' = [ep EXCEPT !.pc = "get", !.params = params]
  /\ UNCHANGED <<broker, entities, dataModels, sources, clock, rs, imp, hookLog, dsc, ops, nz,
                 cl, tpl, ui, hk>>

\* fetchEntityDetailsEndpoint: the awaited client.get, then the answer
FetchDetailsGet ==
  /\ ep.handler = "fetchDetails" /\ ep.pc = "get"
  /\ LET config == ClientConfig(ep.params.service, ep.params.servicePath)
         headers == Spread(AxiosDefaults, CreateNgsiClient(config))
         id == ep.params.entityId
     IN \E status \in {200, 404} \cup FaultStatuses :
          /\ Answers(status, BrokerGetStatus(broker, id, config))
          /\ ep' = [ep EXCEPT
               !.pc = "done",
               !.reqs = Append(@, WireRequest("GET", id, headers, Null, status)),
               !.response = IF Is2xx(status)
                            THEN DataResponse(200, DetailsBody(BrokerGet(broker, id, headers)))
                            ELSE JsonResponse(500, Some(DetailsError(AxiosError(status))))]
  /\ UNCHANGED <<broker, entities, dataModels, sources, clock, rs, imp, hookLog, dsc, ops, nz,
                 cl, tpl, ui, hk>>

NotFoundGuidance == "Entity not found in Context Broker. Try \"Force Resync\" to create it."

\* the status and message of fetchEntityEndpoint's catch block
FetchEntityError(err) ==
  IF err.isAxiosError
  THEN [status |-> IF err.hasResponse THEN err.status ELSE 500,
        error |-> Some(IF err.hasResponse /\ err.status = 404 THEN NotFoundGuidance
                       ELSE IF err.detail # Null THEN err.detail[1]
                       ELSE IF err.title # Null THEN err.title[1]
                       ELSE err.message)]
  ELSE [status |-> 500, error |-> Some(err.message)]

\* fetchEntityEndpoint: the 400 check of the route parameter, findByID of the record,
\* the checks of its source
FetchEntityStart ==
  /\ ep.handler = "fetchEntity" /\ ep.pc = "idle"
  /\ \E id \in 0..(Len(entities) + 1) :
       LET params == [id |-> id]
       IN IF id = 0
          THEN /\ Answer(JsonResponse(400, Some("Entity ID is required")))
               /\ UNCHANGED faults
          ELSE \/ /\ faults < MaxFaults
                  /\ faults' = faults + 1
                  /\ ep' = [ep EXCEPT !.pc = "done", !.params = params,
                              !.response = Some(FetchEntityError(StoreError))]
               \/ /\ id > Len(entities)
                  /\ UNCHANGED faults
                  /\ ep' = [ep EXCEPT !.pc = "done", !.params = params,
                              !.response = JsonResponse(404, Some("Entity not found in Payload"))]
               \/ /\ id <= Len(entities)
                  /\ UNCHANGED faults
                  /\ IF ~sources[entities[id].source].hasBrokerUrl
                     THEN ep' = [ep EXCEPT !.pc = "done", !.params = params,
                                   !.response =
                                      JsonResponse(400, Some("Source broker URL not configured"))]
                     ELSE ep' = [ep EXCEPT !.pc = "get", !.params = params]
  /\ UNCHANGED <<broker, entities, dataModels, sources, clock, rs, imp, hookLog, dsc, ops, nz,
                 cl, tpl, ui, hk>>

\* fetchEntityEndpoint: await ngsi.getEntity(entity.entityId), then the answer
FetchEntityGet ==
  /\ ep.handler = "fetchEntity" /\ ep.pc = "get"
  /\ LET entity == entities[ep.params.id]
         config == [service |-> entity.service, servicePath |-> entity.servicePath,
                    authToken |-> sources[entity.source].authToken]
         contextUrl == dataModels[entity.dataModel].contextUrl
         headers == Spread(Spread(AxiosDefaults, CreateNgsiClient(config)),
                           GetEntityHeaders(Null, contextUrl))
     IN \E status \in {200, 404} \cup FaultStatuses :
          /\ Answers(status, BrokerGetStatus(broker, entity.entityId, config))
          /\ ep' = [ep EXCEPT
               !.pc = "done",
               !.reqs = Append(@, WireRequest("GET", entity.entityId, headers, Null, status)),
               !.response = IF Is2xx(status)
                            THEN DataResponse(200, BrokerGet(broker, entity.entityId, headers))
                            ELSE Some(FetchEntityError(AxiosError(status)))]
  /\ UNCHANGED <<broker, entities, dataModels, sources, clock, rs, imp, hookLog, dsc, ops, nz,
                 cl, tpl, ui, hk>>

\* the answer of the proxy and of the entities API to a fetch: the broker's data, the
\* broker's status when it is not ok, 500 when fetch itself threw (status 0)
FetchAnswer(status, data, thrown) ==
  IF Is2xx(status) THEN DataResponse(200, data)
  ELSE IF status = 0 THEN JsonResponse(500, Some(thrown))
  ELSE JsonResponse(status, Some("Broker request failed"))

\* the proxy (GET /api/ngsi-proxy): the 400 check of the broker parameter, the awaited
\* fetch of the target URL, then the answer
ProxyGet ==
  /\ ep.handler = "proxy" /\ ep.pc = "idle"
  /\ \E brokerUrl \in {"", "http://b"}, tenant \in {"", "a"} :
       LET params == [broker |-> brokerUrl, tenant |-> tenant]
           config == [service |-> tenant, servicePath |-> "/"]
           headers == IF tenant = "" THEN NoHeaders
                      ELSE [h \in {"fiware-service"} |-> tenant]
       IN IF brokerUrl = ""
          THEN /\ ep' = [ep EXCEPT !.pc = "done", !.params = params,
                           !.response = JsonResponse(400, Some("Missing broker URL parameter"))]
               /\ UNCHANGED faults
          ELSE \E status \in {200} \cup FaultStatuses :
                 /\ Answers(status, 200)
                 /\ ep' = [ep EXCEPT
                      !.pc = "done", !.params = params,
                      !.reqs = Append(@, WireRequest("GET", "", headers, Null, status)),
                      !.response = FetchAnswer(status, BrokerQuery(broker, config),
                                               "Proxy request failed")]
  /\ UNCHANGED <<broker, entities, dataModels, sources, clock, rs, imp, hookLog, dsc, ops, nz,
                 cl, tpl, ui, hk>>

\* the entities API (GET /api/ngsi/entities): the 400 checks of sourceId and type,
\* findByID of the source, the check of its broker URL
EntitiesApiStart ==
  /\ ep.handler = "entitiesApi" /\ ep.pc = "idle"
  /\ \E sourceId \in {"", "s1", "s2", "s9"}, type \in {Undefined, Weather, Park},
        ids \in {Null, Some({E2})} :
       LET params == [sourceId |-> sourceId, type |-> type, ids |-> ids]
       IN IF sourceId = ""
          THEN /\ ep' = [ep EXCEPT !.pc = "done", !.params = params,
                           !.response = JsonResponse(400, Some("Missing sourceId parameter"))]
               /\ UNCHANGED faults
          ELSE IF Falsy(type)
          THEN /\ ep' = [ep EXCEPT !.pc = "done", !.params = params,
                           !.response = JsonResponse(400, Some("Missing type parameter"))]
               /\ UNCHANGED faults
          ELSE \/ /\ faults < MaxFaults
                  /\ faults' = faults + 1
                  /\ ep' = [ep EXCEPT !.pc = "done", !.params = params,
                              !.response = JsonResponse(500, Some("Request failed"))]
               \/ /\ sourceId \notin DOMAIN sources
                  /\ UNCHANGED faults
                  /\ ep' = [ep EXCEPT !.pc = "done", !.params = params,
                              !.response = JsonResponse(404, Some("Source not found"))]
               \/ /\ sourceId \in DOMAIN sources
                  /\ UNCHANGED faults
                  /\ IF ~sources[sourceId].hasBrokerUrl
                     THEN ep' = [ep EXCEPT !.pc = "done", !.params = params,
                                   !.response =
                                      JsonResponse(400, Some("Source has no broker URL configured"))]
                     ELSE ep' = [ep EXCEPT !.pc = "fetch", !.params = params]
  /\ UNCHANGED <<broker, entities, dataModels, sources, clock, rs, imp, hookLog, dsc, ops, nz,
                 cl, tpl, ui, hk>>

\* the entities API: the awaited fetch of /ngsi-ld/v1/entities?type=..., the filter on
\* the ids parameter, then the answer
EntitiesApiFetch ==
  /\ ep.handler = "entitiesApi" /\ ep.pc = "fetch"
  /\ LET OfType(e) == e.type = ep.params.type
         Wanted(e) == ep.params.ids = Null \/ e.id \in ep.params.ids[1]
         data == SelectSeq(SelectSeq(BrokerQuery(broker, [service |-> "", servicePath |-> "/"]),
                                     OfType), Wanted)
         headers == [h \in {"Accept"} |-> "application/json"]
     IN \E status \in {200} \cup FaultStatuses :
          /\ Answers(status, 200)
          /\ ep' = [ep EXCEPT
               !.pc = "done",
               !.reqs = Append(@, WireRequest("GET", "", headers, Null, status)),
               !.response = FetchAnswer(status, data, "Request failed")]
  /\ UNCHANGED <<broker, entities, dataModels, sources, clock, rs, imp, hookLog, dsc, ops, nz,
                 cl, tpl, ui, hk>>

\* one request: its handler is idle, every other invocation is never made
InitApi ==
  /\ entities = <<LocalRecord(E1, Weather, [temp |-> "v1"], "s1", 1, "pending"),
                  LocalRecord(E3, Weather, [temp |-> "v1"], "s2", 1, "pending")>>
  /\ dataModels = <<DataModelRecord(Weather)>>
  /\ sources = [s \in {"s1", "s2"} |->
                  IF s = "s1" THEN SourceRecord(TRUE, Some("tok"), Null, Null)
                  ELSE SourceRecord(FALSE, Null, Null, Null)]
  /\ broker \in { <<>>, <<[id |-> E1, type |-> Weather, temp |-> "v0"]>>,
                  <<[id |-> E1, type |-> Weather, temp |-> "v0"],
                    [id |-> E2, type |-> Weather, temp |-> "v0"]>> }
  /\ clock = 0
  /\ faults = 0
  /\ hookLog = <<>>
  /\ \E h \in Handlers :
       /\ rs = [p \in Procs |-> IF h = "resync" /\ p = "p1" THEN IdleResync
                                ELSE NotInvoked(IdleResync)]
       /\ imp = [q \in ImportReqs |-> IF h = "import" /\ q = "q2" THEN IdleImport
                                      ELSE NotInvoked(IdleImport)]
       /\ dsc = IF h = "discover" THEN IdleDiscover ELSE NotInvoked(IdleDiscover)
       /\ ep = IF h \in {"fetchDetails", "fetchEntity", "proxy", "entitiesApi"}
               THEN IdleEndpoint(h) ELSE NotInvoked(IdleEndpoint(h))
  /\ ops = <<>>
  /\ nz = <<>>
  /\ cl = <<>>
  /\ tpl = <<>>
  /\ ui = <<>>
  /\ hk = <<>>

NextApi ==
  \/ ResyncFind("p1")
  \/ UpsertProbe("p1")
  \/ UpsertCreate("p1")
  \/ UpsertUpdate("p1")
  \/ ResyncMarkSynced("p1")
  \/ ResyncCatch("p1")
  \/ ImportStart("q2")
  \/ ImportLoop("q2")
  \/ ImportFindModel("q2")
  \/ ImportCreateModel("q2")
  \/ ImportFindEntity("q2")
  \/ ImportCreateEntity("q2")
  \/ NextDiscover
  \/ FetchDetailsStart
  \/ FetchDetailsGet
  \/ FetchEntityStart
  \/ FetchEntityGet
  \/ ProxyGet
  \/ EntitiesApiStart
  \/ EntitiesApiFetch

ApiSpec == InitApi /\ [][NextApi]_vars

----------------------------------------------------------------------------
(* Claims about NgsiLdOperations and resync *)

HeadOf(p) == rs[p].reqs[1]
WriteOf(p) == rs[p].reqs[2]
UpsertOver(p) == rs[p].exists \in {"true", "false"} /\ rs[p].pc \notin {"create", "update"}

\* C1: entityExists returns false exactly when the HEAD request failed with 404,
\* true exactly when it succeeded with a 2xx status, and on every other failure
\* (another status, or no response at all) rethrows that very error.
C1_EntityExists ==
  \A p \in Procs :
    /\ rs[p].exists # "none" <=> Len(rs[p].reqs) >= 1
    /\ Len(rs[p].reqs) >= 1 =>
         /\ HeadOf(p).method = "HEAD"
         /\ rs[p].exists = "false" <=> HeadOf(p).status = 404
         /\ rs[p].exists = "true" <=> HeadOf(p).status \in 200..299
         /\ HeadOf(p).status \notin (200..299) \cup {404} =>
              /\ rs[p].exists = "throw"
              /\ rs[p].err = Some(AxiosError(HeadOf(p).status))
              /\ rs[p].pc \in {"catch", "done", "unhandled"}

\* C1 witness: one call got 404 and returned false while another got no response
\* at all and rethrew.
C1_Witness ==
  \E p, q \in Procs :
    /\ rs[p].exists = "false" /\ HeadOf(p).status = 404
    /\ rs[q].exists = "throw" /\ HeadOf(q).status = 0

\* C2: upsertEntity probes exactly once; after an absent probe it issues exactly
\* one POST carrying the whole entity and nothing else, after a present probe
\* exactly one PATCH whose body is the entity without id and type and nothing
\* else; a rethrown probe error leads to no write; it returns 'created' exactly
\* when that POST succeeded and 'updated' exactly when that PATCH succeeded.
C2_Upsert ==
  \A p \in Procs :
    LET r == rs[p]
        n == Len(r.reqs)
        entity == r.body[1]
    IN /\ n <= 2
       /\ n >= 1 => r.reqs[1].method = "HEAD" /\ r.reqs[1].id = entity["id"]
       /\ r.exists \in {"none", "throw"} => n <= 1
       /\ UpsertOver(p) => n = 2
       /\ n = 2 =>
            /\ r.reqs[2].id = entity["id"]
            /\ \/ /\ r.exists = "false"
                  /\ r.reqs[2].method = "POST"
                  /\ r.reqs[2].body = Some(entity)
               \/ /\ r.exists = "true"
                  /\ r.reqs[2].method = "PATCH"
                  /\ DOMAIN r.reqs[2].body[1] = DOMAIN entity \ {"id", "type"}
                  /\ \A k \in DOMAIN r.reqs[2].body[1] : r.reqs[2].body[1][k] = entity[k]
       /\ r.result = "created" <=>
            (n = 2 /\ r.reqs[2].method = "POST" /\ r.reqs[2].status \in 200..299)
       /\ r.result = "updated" <=>
            (n = 2 /\ r.reqs[2].method = "PATCH" /\ r.reqs[2].status \in 200..299)

\* C2 witness: one upsert took the create branch and another the update branch.
C2_Witness ==
  \E p, q \in Procs :
    /\ rs[p].result = "created" /\ Len(rs[p].reqs) = 2
    /\ rs[q].result = "updated" /\ Len(rs[q].reqs) = 2

Posted(p) == Len(rs[p].reqs) = 2 /\ WriteOf(p).method = "POST"

\* C3: when two concurrent upsertEntity calls for one id both probed absent and
\* both issued a create that the broker answered, exactly one create succeeded,
\* the other call failed with the broker's 409 as its error, and the broker holds
\* exactly one entity with that id.
C3_CreateRace ==
  \A p, q \in Procs :
    ( /\ p # q
      /\ Posted(p) /\ Posted(q)
      /\ WriteOf(p).id = WriteOf(q).id
      /\ WriteOf(p).status \notin FaultStatuses
      /\ WriteOf(q).status \notin FaultStatuses )
    => /\ \E w \in {p, q} : \E l \in {p, q} \ {w} :
            /\ WriteOf(w).status = 201 /\ rs[w].result = "created"
            /\ WriteOf(l).status = 409 /\ rs[l].result = "none"
            /\ rs[l].err = Some(AxiosError(409))
            /\ rs[l].pc \in {"catch", "done", "unhandled"}
       /\ Cardinality({i \in 1..Len(broker) : broker[i]["id"] = WriteOf(p).id}) = 1

\* C3 witness: both calls observed "absent" and both issued the create.
C3_Witness ==
  \E p, q \in Procs :
    /\ p # q
    /\ rs[p].exists = "false" /\ rs[q].exists = "false"
    /\ Posted(p) /\ Posted(q)
    /\ WriteOf(p).status = 201 /\ WriteOf(q).status = 409

\* C4: a resync whose create was answered 409 by the broker does not answer
\* with an error and does not record syncStatus 'error' on the local entity.
C4_Conflict409Benign ==
  \A p \in Procs :
    (rs[p].pc = "done" /\ Posted(p) /\ WriteOf(p).status = 409)
    => /\ rs[p].response[1].status < 400
       /\ rs[p].wrote # "error"

\* the message the claim expects for an error: the broker's detail, else its title,
\* else the raw message
MostSpecific(err) ==
  IF err.detail # Null THEN err.detail[1]
  ELSE IF err.title # Null THEN err.title[1]
  ELSE err.message

WriteRejected(p) ==
  /\ Len(rs[p].reqs) = 2
  /\ ~Is2xx(WriteOf(p).status)
  /\ rs[p].err # Null /\ rs[p].err[1].hasResponse

\* C15: when the broker rejected the resync's write with a ProblemDetails body,
\* the error answered to the caller and the lastSyncError written to the record
\* are the broker's detail, or its title when there is no detail.
C15_MostSpecificError ==
  [][ \A p \in Procs :
        (WriteRejected(p) /\ rs[p].wrote = "none" /\ rs'[p].wrote = "error")
        => /\ rs'[p].response[1].error = Some(MostSpecific(rs[p].err[1]))
           /\ entities'[rs[p].id].lastSyncError = Some(MostSpecific(rs[p].err[1])) ]_vars

\* C28: the entity body a resync hands to upsertEntity, and with it the id every
\* broker request of the resync is for, has the record's entityId as id and the
\* record's short type as type, whatever keys the record's attributes map has.
C28_BodyIdentity ==
  \A p \in Procs :
    rs[p].body # Null =>
      LET doc == entities[rs[p].id]
      IN /\ rs[p].body[1]["id"] = doc.entityId
         /\ rs[p].body[1]["type"] = EntityType(doc, dataModels)
         /\ \A k \in 1..Len(rs[p].reqs) : rs[p].reqs[k].id = doc.entityId

Mirrored == {"entityId", "type", "attributes", "service", "servicePath", "source", "dataModel"}

\* C16: no step of a resync removes a local record or changes its entityId, type,
\* attributes, service, servicePath, source or dataModel; the step that records
\* a failure changes syncStatus, lastSyncTime and lastSyncError and nothing else.
C16_FailedResyncFrame ==
  [][ /\ Len(entities') = Len(entities)
      /\ \A i \in 1..Len(entities) :
           /\ DOMAIN entities'[i] = DOMAIN entities[i]
           /\ \A f \in Mirrored : entities'[i][f] = entities[i][f]
      /\ \A p \in Procs :
           (rs[p].wrote = "none" /\ rs'[p].wrote = "error")
           => \A i \in 1..Len(entities) :
                IF i = rs[p].id
                THEN \A f \in DOMAIN entities[i] \ {"syncStatus", "lastSyncTime", "lastSyncError"} :
                       entities'[i][f] = entities[i][f]
                ELSE entities'[i] = entities[i] ]_vars

\* C16 witness: a resync failed at the broker and recorded the failure.
C16_Witness ==
  \E p \in Procs :
    /\ rs[p].pc = "done" /\ rs[p].wrote = "error"
    /\ rs[p].err # Null /\ rs[p].err[1].isAxiosError
    /\ entities[rs[p].id].syncStatus = "error"

----------------------------------------------------------------------------
(* Claims about the endpoints side by side *)

Discovered == dsc.pc = "done" /\ dsc.response # Null /\ dsc.response[1].status = 200

Failed(query) == query.status \notin 200..299

SyncedHasNoError ==
  \A i \in 1..Len(entities) : entities[i].syncStatus = "synced" => entities[i].lastSyncError = Null

C29_SameDuplicateRule ==
  [][ \A q \in ImportReqs :
        ( /\ Discovered
          /\ imp[q].pc = "findEntity" /\ imp'[q].pc # "findEntity"
          /\ imp'[q].last # "error"
          /\ imp[q].sourceId = dsc.sourceId )
        => \A k \in 1..Len(dsc.response[1].entities) :
             LET e == dsc.response[1].entities[k]
             IN  e.id = Current(q).entityId
                 => (e.alreadySynced <=> imp'[q].last = "exists") ]_vars

IsWrite(req) == req.method \in {"POST", "PATCH"}

\* the scope the k-th query of a discovery is for, each scope being queried once
ScopeAt(k) ==
  LET nPaths == Len(dsc.servicePaths)
  IN  ClientConfig(dsc.services[((k - 1) \div nPaths) + 1], dsc.servicePaths[((k - 1) % nPaths) + 1])

\* C17: a resync issues at most one HEAD and at most one POST or PATCH whatever
\* their outcome, and none once it has failed or answered, its status writes
\* triggering no push of the afterChange hook either; the k-th query of a
\* discovery is for the k-th scope, so no scope is queried again after a failure,
\* and a discovery that answered queried every scope exactly once.
C17_NoRetry ==
  /\ [](\A p \in Procs :
          /\ Cardinality({k \in 1..Len(rs[p].reqs) : rs[p].reqs[k].method = "HEAD"}) <= 1
          /\ Cardinality({k \in 1..Len(rs[p].reqs) : IsWrite(rs[p].reqs[k])}) <= 1
          /\ Len(rs[p].reqs) <= 2)
  /\ [](/\ \A k \in 1..Len(dsc.queries) : dsc.queries[k].config = ScopeAt(k)
        /\ Len(dsc.queries) <= Len(dsc.services) * Len(dsc.servicePaths)
        /\ Discovered => Len(dsc.queries) = Len(dsc.services) * Len(dsc.servicePaths))
  /\ [][ /\ hookLog' = hookLog
         /\ \A p \in Procs :
              rs[p].pc \in {"catch", "done", "unhandled"} => rs'[p].reqs = rs[p].reqs ]_vars

\* C17 witness: a resync whose write failed has answered, and a discovery whose
\* first query failed has answered after querying the second scope once.
C17_Witness ==
  /\ \E p \in Procs :
       /\ rs[p].pc = "done" /\ Len(rs[p].reqs) = 2
       /\ WriteOf(p).status \in FaultStatuses
  /\ Discovered
  /\ Len(dsc.queries) = 2
  /\ Failed(dsc.queries[1])

----------------------------------------------------------------------------
(* Claims about the HTTP surface *)

Status(inv) == inv.response[1].status

\* the handler is over and answered a JSON body, or is still running
AnsweredOrRunning(inv) ==
  /\ inv.pc # "unhandled"
  /\ inv.pc = "done" => inv.response # Null /\ inv.response[1].status \in 200..599

\* C24: no invocation of resync, import, discovery, fetch-details or
\* fetch-entity ends with an exception that escapes the handler; each one that
\* is over answered a JSON response, whichever step failed: the parsing of the
\* request body, a local-store call, a broker call, or the status write in
\* resync's own catch block.
C24_AlwaysStructuredAnswer ==
  /\ \A p \in Procs : AnsweredOrRunning(rs[p])
  /\ \A q \in ImportReqs : AnsweredOrRunning(imp[q])
  /\ AnsweredOrRunning(dsc)
  /\ AnsweredOrRunning(ep)

\* the request of the invocation `ep` carries a configuration error the handler
\* checks before its first lookup
MissingParameter ==
  CASE ep.handler = "fetchDetails" -> ep.params.sourceId = "" \/ ep.params.entityId = ""
    [] ep.handler = "proxy"        -> ep.params.broker = ""
    [] ep.handler = "entitiesApi"  -> ep.params.sourceId = "" \/ Falsy(ep.params.type)
    [] OTHER                       -> FALSE

\* the record the request names was read and its source has no broker URL
NoBrokerUrl(id, err) ==
  /\ id \in 1..Len(entities)
  /\ err = Null
  /\ ~sources[entities[id].source].hasBrokerUrl

\* C25: a request with a configuration error is answered 400 and no broker
\* request is issued for it: discovery without sourceId, import without
\* sourceId or with no entities, fetch-details without sourceId or entityId,
\* the proxy without broker, the entities API without sourceId or type, and a
\* resync or fetch of a record that was read and whose source has no broker
\* URL; when that read fails instead, the answer is an error and still no
\* broker request is issued.
C25_ConfigErrorAnswered400 ==
  /\ (dsc.pc = "done" /\ dsc.sourceId = "")
       => Status(dsc) = 400 /\ dsc.queries = <<>>
  /\ \A q \in ImportReqs :
       (imp[q].pc = "done" /\ (imp[q].sourceId = "" \/ imp[q].n = 0))
       => Status(imp[q]) = 400 /\ imp[q].batch = <<>> /\ hookLog = <<>>
  /\ \A p \in Procs :
       /\ (rs[p].pc = "done" /\ rs[p].id = 0) => Status(rs[p]) = 400 /\ rs[p].reqs = <<>>
       /\ (rs[p].pc = "done" /\ NoBrokerUrl(rs[p].id, rs[p].err))
            => Status(rs[p]) = 400 /\ rs[p].reqs = <<>>
       /\ (rs[p].id \in 1..Len(entities) /\ ~sources[entities[rs[p].id].source].hasBrokerUrl)
            => rs[p].reqs = <<>>
  /\ (ep.pc = "done" /\ ep.params # EmptyObject /\ MissingParameter)
       => Status(ep) = 400 /\ ep.reqs = <<>>
  /\ (ep.pc = "done" /\ ep.handler = "fetchEntity") =>
       /\ ep.params = EmptyObject => Status(ep) = 400 /\ ep.reqs = <<>>
       /\ (ep.params # EmptyObject /\ ep.params.id \in 1..Len(entities)
           /\ ~sources[entities[ep.params.id].source].hasBrokerUrl)
            => Status(ep) \in {400, 500} /\ ep.reqs = <<>>
       /\ (ep.params # EmptyObject /\ Status(ep) = 400) => ep.reqs = <<>>

\* C25 witness: a fetch of a record whose source has no broker URL was answered
\* 400 without a broker request.
C25_Witness ==
  /\ ep.handler = "fetchEntity" /\ ep.pc = "done"
  /\ ep.params = [id |-> 2]
  /\ ~sources[entities[2].source].hasBrokerUrl
  /\ Status(ep) = 400
  /\ ep.reqs = <<>>

----------------------------------------------------------------------------
(* Claims about importEntitiesEndpoint *)

Count(seq, x) == Cardinality({i \in 1..Len(seq) : seq[i] = x})
Ids(seq) == [i \in 1..Len(seq) |-> seq[i].id]
Answered(q, status) ==
  imp[q].pc = "done" /\ imp[q].response # Null /\ imp[q].response[1].status = status

\* C5: no two records of the local ngsi-entities store have the same entityId,
\* whatever their source, after any interleaving of import requests.
C5_UniqueEntityId ==
  \A i, j \in 1..Len(entities) :
    i # j => entities[i].entityId # entities[j].entityId

\* C6: a candidate rejected with "Entity already exists" caused no local write:
\* no entity record and no record of another collection was created for it.
C6_RejectedDuplicateNoWrite ==
  \A q \in ImportReqs :
    (imp[q].last = "exists" /\ imp[q].failed[Len(imp[q].failed)].error = AlreadyExists)
    => imp[q].writes = 0

\* C7: an import that reached its loop processes every candidate and answers
\* with the itemized result: every candidate's entityId is in exactly one of
\* success and failed, |success| + |failed| is the batch size, and the batch
\* <<duplicate, novel>> yields success = <<novel>> and
\* failed = <<{duplicate, "Entity already exists"}>>.
C7_EveryCandidateReported ==
  \A q \in ImportReqs :
    (imp[q].pc = "done" /\ imp[q].batch # <<>>)
    => /\ Answered(q, 200)
       /\ Len(imp[q].batch) = imp[q].n
       /\ Len(imp[q].success) + Len(imp[q].failed) = imp[q].n
       /\ \A i \in 1..Len(imp[q].batch) :
            LET id == imp[q].batch[i][1].entityId
            IN  (Count(imp[q].success, id) = 1 /\ Count(Ids(imp[q].failed), id) = 0)
                \/ (Count(imp[q].success, id) = 0 /\ Count(Ids(imp[q].failed), id) = 1)

ShortForm(name) == <<name[Len(name)]>>

\* C18: no two records of the data-model store have model names with the same
\* short form (the substring after the last '/'), whatever imports have run.
C18_OneModelPerType ==
  \A i, j \in 1..Len(dataModels) :
    i # j => ShortForm(dataModels[i].model) # ShortForm(dataModels[j].model)

----------------------------------------------------------------------------
(* Claims about NgsiLdOperations used directly *)

LdJson == "application/ld+json"

\* C12: every getEntity request is in one of two header modes: with
\* embedContext set it carries Accept: application/ld+json and no Link header,
\* otherwise Accept: application/json and the Link header built from the
\* client's context URL; and no request of any operation carries a Link header
\* together with Accept: application/ld+json.
C12_HeaderModes ==
  \A k \in 1..Len(ops.calls) :
    LET c == ops.calls[k]
    IN /\ \A n \in 1..Len(c.reqs) :
            ~("Link" \in DOMAIN c.reqs[n].headers /\ c.reqs[n].headers["Accept"] = LdJson)
       /\ c.op = "getEntity" =>
            /\ Len(c.reqs) = 1 /\ c.reqs[1].method = "GET"
            /\ LET h == c.reqs[1].headers
               IN IF c.options = Some([embedContext |-> TRUE])
                  THEN h["Accept"] = LdJson /\ "Link" \notin DOMAIN h
                  ELSE /\ h["Accept"] = "application/json"
                       /\ "Link" \in DOMAIN h
                       /\ h["Link"] = BuildLinkHeader(ops.contextUrl)

\* C12 witness: the caller has fetched an entity in embedded mode and then in
\* compacted mode.
C12_Witness ==
  /\ Len(ops.calls) = 2
  /\ ops.calls[1].op = "getEntity" /\ ops.calls[1].options = Some([embedContext |-> TRUE])
  /\ ops.calls[1].outcome = "returned"
  /\ ops.calls[2].op = "getEntity" /\ ops.calls[2].options = Null
  /\ ops.calls[2].outcome = "returned"

\* C13: when upsertEntity(E) returned and the caller's next call, getEntity(E.id),
\* returned, the entity it returned has every attribute of E with E's value.
C13_UpsertGetRoundTrip ==
  \A k \in 1..(Len(ops.calls) - 1) :
    LET up == ops.calls[k]
        get == ops.calls[k + 1]
    IN ( /\ up.op = "upsertEntity" /\ up.outcome = "returned"
         /\ get.op = "getEntity" /\ get.outcome = "returned"
         /\ get.arg = up.arg["id"] )
       => \A a \in DOMAIN up.arg \ {"id", "type"} :
            a \in DOMAIN get.value[1] /\ get.value[1][a] = up.arg[a]

PatchOf(call) == call.reqs[2]

Patched(call) ==
  call.op = "upsertEntity" /\ Len(call.reqs) = 2 /\ call.reqs[2].method = "PATCH"

\* C22: an upsertEntity whose PATCH the broker answered with any 2xx status
\* returns, and when the answer was 207 (only part of the attributes applied)
\* what it returns tells the caller so: it is not the plain 'updated' of a PATCH
\* applied in full.
C22_MultiStatusSurfaced ==
  \A k \in 1..Len(ops.calls) :
    LET c == ops.calls[k]
    IN  Patched(c) =>
          /\ Is2xx(PatchOf(c).status) => c.outcome = "returned"
          /\ PatchOf(c).status = 207 => c.value # Some("updated")

Deleted(call) == call.op = "deleteEntity" /\ call.reqs[1].status \in {204, 404}

\* C23: a deleteEntity the broker answered with 204 (removed) or with 404
\* (already absent) returns without throwing, so two calls in a row for one id
\* both return, and the value returned after 204 differs from the one after 404.
C23_DeleteIdempotent ==
  \A k \in 1..Len(ops.calls) :
    LET c == ops.calls[k]
    IN  Deleted(c) =>
          /\ c.outcome = "returned"
          /\ \A j \in 1..Len(ops.calls) :
               (Deleted(ops.calls[j]) /\ ops.calls[j].reqs[1].status # c.reqs[1].status)
               => ops.calls[j].value # c.value

----------------------------------------------------------------------------
(* Claims about createNgsiClient *)

\* a configured string that is not empty once trimmed
NonEmptyTrimmed(config, key) == key \in DOMAIN config /\ Trim(config[key]) # ""

\* C21: the client createNgsiClient returns has Fiware-Service exactly when the
\* configured service is non-empty after trimming, Fiware-ServicePath exactly
\* when the configured servicePath is, each with the trimmed value, X-Auth-Token
\* exactly when an auth token is configured, with that token, and none of
\* Accept, Content-Type and Link.
C21_ClientHeaders ==
  cl.headers # Null =>
    LET h == cl.headers[1]
        c == cl.config
        token == Field(c, "authToken", Some(""))
    IN /\ "Fiware-Service" \in DOMAIN h <=> NonEmptyTrimmed(c, "service")
       /\ "Fiware-Service" \in DOMAIN h => h["Fiware-Service"] = Trim(c["service"])
       /\ "Fiware-ServicePath" \in DOMAIN h <=> NonEmptyTrimmed(c, "servicePath")
       /\ "Fiware-ServicePath" \in DOMAIN h => h["Fiware-ServicePath"] = Trim(c["servicePath"])
       /\ "X-Auth-Token" \in DOMAIN h <=> token # Some("")
       /\ "X-Auth-Token" \in DOMAIN h => h["X-Auth-Token"] = token[1]
       /\ DOMAIN h \cap {"Accept", "Content-Type", "Link"} = {}

\* C21 witness: a client created from a padded service, a padded servicePath and
\* a token carries the three headers.
C21_Witness ==
  /\ cl.headers # Null
  /\ cl.config = [service |-> " a ", servicePath |-> "/p ", authToken |-> Some("tok")]
  /\ cl.headers[1] = [h \in {"Fiware-Service", "Fiware-ServicePath", "X-Auth-Token"} |->
                        CASE h = "Fiware-Service" -> "a"
                          [] h = "Fiware-ServicePath" -> "/p"
                          [] OTHER -> "tok"]

----------------------------------------------------------------------------
(* Claims about template rendering *)

\* the own property of an object, or undefined when it has none of that name
OwnProperty(obj, key) ==
  IF \E i \in 1..Len(obj.v) : obj.v[i][1] = key
  THEN obj.v[CHOOSE i \in 1..Len(obj.v) : obj.v[i][1] = key][2]
  ELSE JsUndefined

\* the walk the claim describes, over own properties: the value at the path, or
\* undefined when a segment is missing or the walk reaches a non-object
RECURSIVE Resolve(_, _)
Resolve(current, path) ==
  IF path = <<>> THEN current
  ELSE Resolve(IF current.t = "object" THEN OwnProperty(current, Head(path))
               ELSE JsUndefined,
               Tail(path))

\* every placeholder replaced by its formatted value, "-" standing for a path
\* that does not resolve
Rendered(template, context) ==
  Join([k \in 1..Len(template) |->
          IF template[k].kind = "text" THEN template[k].s
          ELSE LET value == Resolve(context, template[k].path)
               IN  IF value.t \in {"null", "undefined"} THEN "-" ELSE FormatValue(value)], "")

\* C26: the popup and the card title render a template with every {{path}}
\* placeholder replaced: by the value its dot-separated path resolves to over
\* the context, and by the empty marker when a segment is missing or the walk
\* reaches a value that is not an object.
C26_TemplateRendered ==
  /\ tpl.popup # Null => tpl.popup[1] = Rendered(tpl.template, tpl.context)
  /\ tpl.title # Null => tpl.title[1] = Rendered(tpl.template, tpl.context)

----------------------------------------------------------------------------
(* Claims about the admin import flow *)

\* the operator can see what became of the entity: it is marked as imported, or
\* an error message names it, or the whole operation was reported as failed
Reported(id) ==
  \/ \E k \in 1..Len(ui.entities) : ui.entities[k].id = id /\ ui.entities[k].alreadySynced
  \/ \E k \in 1..Len(ui.toasts) :
       ui.toasts[k].kind = "error" /\ (id \in ui.toasts[k].ids \/ ui.toasts[k].blanket)

\* C27: when handleImport is over, every entity the operator had selected is
\* marked as imported or shown as failed with an error; none whose detail
\* fetch failed is dropped without a report while the others are imported.
C27_EverySelectedReported ==
  ui.pc = "done" => \A id \in ui.chosen : Reported(id)

----------------------------------------------------------------------------
(* Claims about the useNgsiData hook *)

\* C30: while the component is mounted, isLoading is true whenever a fetch is
\* in flight, and once no fetch is in flight the hook shows the outcome of the
\* most recently started fetch: its data with no error, or its error.
C30_LatestFetchWins ==
  hk.mounted /\ hk.started > 0
  => /\ hk.inflight # {} => hk.isLoading
     /\ hk.inflight = {}
        => \/ hk.error = Null /\ hk.data # Null /\ hk.data[1].of = hk.started
           \/ hk.error # Null /\ hk.error[1].of = hk.started

----------------------------------------------------------------------------
(* Claims about type normalisation *)

\* C19: normalising a type string twice gives what normalising it once gives,
\* in import's code and in resync's; both map the full URL and the short name
\* to the short name; and both compute the same result for the same string.
C19_NormalizeIdempotent ==
  /\ \A k \in 2..Len(nz.import) : nz.import[k] = nz.import[1]
  /\ \A k \in 2..Len(nz.resync) : nz.resync[k] = nz.resync[1]
  /\ (nz.import # <<>> /\ nz.resync # <<>>) => nz.import[1] = nz.resync[1]
  /\ nz.t \in {Weather, WeatherUrl} =>
       /\ nz.import # <<>> => nz.import[1] = Weather
       /\ nz.resync # <<>> => nz.resync[1] = Weather
  /\ (nz.import # <<>> /\ ~IncludesSlash(nz.t)) => nz.import[1] = nz.t
  /\ (nz.import # <<>> /\ IncludesSlash(nz.t) /\ nz.t[Len(nz.t)] # "")
       => nz.import[1] = ShortForm(nz.t)

\* C19 witness: the full URL has been normalised twice by import and by resync.
C19_Witness ==
  /\ nz.t = WeatherUrl
  /\ Len(nz.import) = 2 /\ Len(nz.resync) = 2
  /\ nz.import[2] = Weather /\ nz.resync[2] = Weather

----------------------------------------------------------------------------
(* Claims about discoverEntitiesEndpoint *)

\* the values a scope list is meant to hold: its rows, or the default when the
\* list is absent or empty
Configured(field, dflt) ==
  IF field = Null \/ field[1] = <<>> THEN <<dflt>>
  ELSE [k \in 1..Len(field[1]) |-> IF field[1][k] = "" THEN dflt ELSE field[1][k]]

\* C9: a discovery that answers has issued exactly one broker query for each
\* pair of the cross product of the source's services and service paths, the
\* default pair ('' and '/') standing in for a list that is absent or empty, so
\* at least one scope has been queried.
C9_QueriesCrossProduct ==
  Discovered =>
    LET svc == Configured(sources[dsc.sourceId].serviceHeader, "")
        pth == Configured(sources[dsc.sourceId].servicePath, "/")
    IN /\ Len(dsc.queries) >= 1
       /\ Len(dsc.queries) = Len(svc) * Len(pth)
       /\ \A a \in 1..Len(svc), b \in 1..Len(pth) :
            dsc.queries[(a - 1) * Len(pth) + b].config =
              [service |-> svc[a], servicePath |-> pth[b]]

RECURSIVE EntitiesOf(_)
EntitiesOf(queries) ==
  IF queries = <<>> THEN <<>>
  ELSE LET h == Head(queries)
       IN (IF Failed(h) THEN <<>>
           ELSE [k \in 1..Len(h.data) |->
                   [id |-> h.data[k].id, type |-> h.data[k].type,
                    service |-> h.config.service, servicePath |-> h.config.servicePath]])
          \o EntitiesOf(Tail(queries))

RECURSIVE FailedScopes(_)
FailedScopes(queries) ==
  IF queries = <<>> THEN <<>>
  ELSE LET h == Head(queries)
       IN (IF Failed(h)
           THEN <<[service |-> IF h.config.service = "" THEN "(default)" ELSE h.config.service,
                   servicePath |-> h.config.servicePath]>>
           ELSE <<>>)
          \o FailedScopes(Tail(queries))

\* C10: a discovery over N scopes of which K failed has queried all N, returns
\* every entity the N-K succeeding scopes returned, each tagged with its own
\* scope, and exactly K error entries, each naming the scope that failed.
C10_FaultIsolation ==
  Discovered =>
    LET r == dsc.response[1]
        failedScopes == FailedScopes(dsc.queries)
        found == EntitiesOf(dsc.queries)
    IN /\ Len(dsc.queries) = Len(dsc.services) * Len(dsc.servicePaths)
       /\ Len(r.entities) = Len(found)
       /\ \A k \in 1..Len(found) :
            /\ r.entities[k].id = found[k].id
            /\ r.entities[k].service = found[k].service
            /\ r.entities[k].servicePath = found[k].servicePath
       /\ (r.errors = Null) <=> (failedScopes = <<>>)
       /\ r.errors # Null =>
            /\ Len(r.errors[1]) = Len(failedScopes)
            /\ \A k \in 1..Len(failedScopes) :
                 /\ r.errors[1][k].service = failedScopes[k].service
                 /\ r.errors[1][k].servicePath = failedScopes[k].servicePath

\* C10 witness: a scope failed, a later scope of another tenant succeeded with
\* entities, and both are in the answer.
C10_Witness ==
  /\ Discovered
  /\ \E a, b \in 1..Len(dsc.queries) :
       /\ a < b
       /\ Failed(dsc.queries[a])
       /\ ~Failed(dsc.queries[b]) /\ dsc.queries[b].data # <<>>
       /\ dsc.queries[b].config.service = "a"
  /\ dsc.response[1].errors # Null
  /\ dsc.response[1].entities # <<>>

\* C11: in the answer of a discovery every entity's alreadySynced is true exactly
\* when the local store holds an ngsi-entities record of the discovered source
\* with that entityId, however many records the source has; total is the number
\* of entities and the alreadySynced count the number of entities flagged true.
C11_AlreadySynced ==
  Discovered =>
    LET r == dsc.response[1]
        Held(id) == \E i \in 1..Len(entities) :
                      entities[i].source = dsc.sourceId /\ entities[i].entityId = id
    IN /\ \A k \in 1..Len(r.entities) : r.entities[k].alreadySynced <=> Held(r.entities[k].id)
       /\ r.total = Len(r.entities)
       /\ r.alreadySynced = Cardinality({k \in 1..Len(r.entities) : r.entities[k].alreadySynced})

\* C20: every broker query of a discovery whose source has an auth token
\* configured carries the X-Auth-Token header with that token.
C20_AuthTokenOnEveryRequest ==
  \A k \in 1..Len(dsc.queries) :
    LET token == sources[dsc.sourceId].authToken
    IN  token # Null =>
          /\ "X-Auth-Token" \in DOMAIN dsc.queries[k].headers
          /\ dsc.queries[k].headers["X-Auth-Token"] = token[1]

====
